---- MODULE Spec2Model ----
(***************************************************************************)
(* Persons single-table store of tanstack-aws: key codec, entity store     *)
(* (ElectroDB client and raw DynamoDB document client), cascading delete,  *)
(* partial person update and the cross-entity pager.                       *)
(*                                                                         *)
(* The module holds several specifications over one set of variables; a    *)
(* specification leaves the variables of the other components at their     *)
(* idle values.                                                            *)
(*   KeySpec      the DynamoDBKeys helpers applied to bounded inputs       *)
(*   CascadeSpec  deletePerson of both clients against the table           *)
(*   UpdateSpec   createPerson and updatePerson of the three clients, one  *)
(*                call at a time                                           *)
(*   ChildSpec    updateAddress, updateBankAccount, updateContact and      *)
(*                updateEmployment of both clients                         *)
(*   PagerSpec    the cross-entity pager drained by loadAllDataForOrama,   *)
(*                with weak fairness of the loop                           *)
(*   BatchSpec    batchWritePersons and retryBatchWrite against a store that *)
(*                leaves requests unprocessed                              *)
(*   DeriveSpec   zodToElectroDBAttributes applied twice to bounded Zod trees *)
(*                and to the five entity schemas                           *)
(*   MergeSpec    mergeEntitiesToSummaries applied to bounded entity lists *)
(*   SearchSpec   the index-building effect of usePersonSearch under refreshes *)
(*                of the persons collection and builds that end in any order *)
(*   SearchLiveSpec  the same, with weak fairness of the end of a build      *)
(*   OwnerSpec    the child creates of both clients against the table, and *)
(*                the sort keys the entities give the items under GSI2     *)
(*   ListSpec     getAllPersons of both clients over a GSI1 listing the store *)
(*                splits into pages                                        *)
(*   RelSpec      getPersonWithRelations against partitions of a Person with *)
(*                children of the four types                               *)
(*   ConvertSpec  the nested calls of convertZodType on one schema tree, with *)
(*                weak fairness of the evaluation                          *)
(*   RaceSpec     two updatePerson calls and a deletePerson on one Person, their *)
(*                requests interleaved in any order                        *)
(*   PopulateSpec populateIndexFromEntities called once per page of a dataset *)
(*                and once with the union of its pages                     *)
(***************************************************************************)
EXTENDS Integers, Sequences, FiniteSets, TLC

VARIABLES
    kPc,        \* key codec: "input" | "encoded" | "decoded" | "parsed"
    kType,      \* key codec: entity type of the key being built / parser used
    kParent,    \* key codec: personId the key is built from
    kId,        \* key codec: child id the key is built from
    kKey,       \* key codec: [pk, sk] physical key
    kOut,       \* key codec: [threw, personId, id] result of the extract helpers
    table,      \* the persons table: [pk, sk] -> stored attributes
    dPc,        \* deletePerson: "idle" | "query" | "delete" | "batch" | "done"
    dVariant,   \* the client in use: "electrodb" (personsClient) | "ddb" (document client)
    dQueried,   \* deletePerson: child types whose query has returned
    dEnumerated,\* deletePerson: keys of the children the queries returned
    dPending,   \* deletePerson: keys whose delete request is in flight
    dChunks,    \* deletePerson: chunks of delete requests not yet sent
    dResult,    \* deletePerson: "none" | "void" | "true" | "false" | "error"
    writes,     \* number of addresses created by another caller
    interfered, \* another caller wrote while deletePerson was running
    uClient,    \* updatePerson: "electrodbPut" | "electrodbPatch" | "ddb"
    now,        \* the clock read by new Date(), in milliseconds
    uPc,        \* updatePerson, per caller: "idle" | "got"
    uArgs,      \* updatePerson, per caller: the updates argument
    uCurrent,   \* updatePerson, per caller: the item read before the merge
    lastOp,     \* the write operation that returned last, with its effect
    prevUpdatedAt, \* updatedAt of the result of the updatePerson before the last
    lastUpdatedAt, \* updatedAt of the result of the last updatePerson
    cClient,    \* child updates: "electrodb" | "ddb"
    childOp,    \* the child update that returned last
    pgData,     \* pager: the number of seeded items of each entity type
    pgLimit,    \* pager: the maximum item count of a query
    pgPc,       \* pager: "idle" | "fetching" | "exhausted"
    pgCursor,   \* pager: the cursor returned by the last nextPage
    pgExhausted, \* pager: the exhaustion flag of the last nextPage
    pgPage,     \* pager: the page returned by the last nextPage
    allData,    \* loadAllDataForOrama: the items accumulated, by type
    bVariant, \* batch write: "batchWritePersons" | "retryBatchWrite"
    bPc, \* batch write: "idle" | "loop" | "done"
    bChunks, \* batch write: chunks not yet sent
    bUnprocessed, \* batch write: requests of the chunk the store has not applied
    bAttempt, \* batch write: the attempt counter
    bSends, \* batch write: BatchWriteCommands sent for the chunk
    bLost, \* batch write: requests given up unprocessed
    bResult, \* batch write: "none" | "void"
    zShape, \* schema derivation: the shape of the Zod object schema, field -> node
    zAttrs, \* schema derivation: the attribute maps derived so far, in order
    mData, \* search merge: the AllEntitiesData handed to mergeEntitiesToSummaries
    mPc, \* search merge: "idle" | "input" | "done"
    mSummaries, \* search merge: the summaries returned
    sPersons,   \* usePersonSearch: the array of person ids the persons collection delivered last
    searchIndex, \* usePersonSearch: [built, docs] the index in state and the ids inserted into it
    isIndexBuilding, \* usePersonSearch: the isIndexBuilding state
    lastDataHashRef, \* usePersonSearch: lastDataHashRef.current
    sBuilds, \* usePersonSearch: the buildIndex calls awaiting the index, [dataHash, persons]
    sStarted, \* usePersonSearch: number of index builds started
    gClient, \* getAllPersons: "electrodb" (personsClient) | "ddb" (document client)
    gPc, \* getAllPersons: "idle" | "query" | "done"
    gLastKey, \* getAllPersons: place in GSI1 of lastKey, 0 for undefined
    gPersons, \* getAllPersons: ids of the persons collected, in order
    rPersonId, \* getPersonWithRelations: the personId of the call
    rPc, \* getPersonWithRelations: call, done
    rResult, \* getPersonWithRelations: what the call returned
    vNode, \* convertZodType: the schema node of the innermost call
    vDepth, \* convertZodType: the number of nested calls
    vPc, \* convertZodType: call, returned, overflow
    xClient, \* concurrent updatePerson: electrodbPut, electrodbPatch, ddb
    xPc, \* concurrent updatePerson, per caller: start, got, or its outcome
    xArgs, \* concurrent updatePerson, per caller: the fields it sets
    xCurrent, \* concurrent updatePerson, per caller: the item it read
    xDeleted, \* a deletePerson of the same Person has completed
    oPages, \* populateIndexFromEntities: the pages of the dataset
    oNext, \* populateIndexFromEntities: the page the next call is given
    oIndex, \* the documents of the index populated page by page
    oWhole, \* the documents of the index populated from the union
    oWholeDone \* the index populated from the union is filled

keyVars == <<kPc, kType, kParent, kId, kKey, kOut>>
cascadeVars == <<dPc, dVariant, dQueried, dEnumerated, dPending, dChunks,
                 dResult, writes, interfered>>

updateVars == <<uClient, now, uPc, uArgs, uCurrent, lastOp, prevUpdatedAt,
                lastUpdatedAt>>

childVars == <<cClient, childOp>>

pagerVars == <<pgData, pgLimit, pgPc, pgCursor, pgExhausted, pgPage, allData>>

batchVars ==
    <<bVariant, bPc, bChunks, bUnprocessed, bAttempt, bSends, bLost, bResult>>

deriveVars == <<zShape, zAttrs>>

mergeVars == <<mData, mPc, mSummaries>>

searchVars ==
    <<sPersons, searchIndex, isIndexBuilding, lastDataHashRef, sBuilds, sStarted>>

listVars == <<gClient, gPc, gLastKey, gPersons>>

relVars == <<rPersonId, rPc, rResult>>

convertVars == <<vNode, vDepth, vPc>>

raceVars == <<xClient, xPc, xArgs, xCurrent, xDeleted>>

populateVars == <<oPages, oNext, oIndex, oWhole, oWholeDone>>

\* what the actions of one component leave alone in the other components
KeyFrame ==
    UNCHANGED <<table, cascadeVars, updateVars, childVars, pagerVars, batchVars, deriveVars, mergeVars,
                searchVars, listVars, relVars, convertVars, raceVars, populateVars>>
CascadeFrame ==
    UNCHANGED <<keyVars, updateVars, childVars, pagerVars, batchVars, deriveVars, mergeVars,
                searchVars, listVars, relVars, convertVars, raceVars, populateVars>>
UpdateFrame ==
    UNCHANGED <<keyVars, cascadeVars, childVars, pagerVars, batchVars, deriveVars, mergeVars,
                searchVars, listVars, relVars, convertVars, raceVars, populateVars>>
ChildFrame ==
    UNCHANGED <<keyVars, cascadeVars, updateVars, pagerVars, batchVars, deriveVars, mergeVars,
                searchVars, listVars, relVars, convertVars, raceVars, populateVars>>
PagerFrame ==
    UNCHANGED <<keyVars, table, cascadeVars, updateVars, childVars, batchVars, deriveVars, mergeVars,
                searchVars, listVars, relVars, convertVars, raceVars, populateVars>>
BatchFrame ==
    UNCHANGED <<keyVars, cascadeVars, updateVars, childVars, pagerVars, deriveVars, mergeVars,
                searchVars, listVars, relVars, convertVars, raceVars, populateVars>>
DeriveFrame ==
    UNCHANGED <<keyVars, table, cascadeVars, updateVars, childVars, pagerVars, batchVars, mergeVars,
                searchVars, listVars, relVars, convertVars, raceVars, populateVars>>
MergeFrame ==
    UNCHANGED <<keyVars, table, cascadeVars, updateVars, childVars, pagerVars, batchVars, deriveVars,
                searchVars, listVars, relVars, convertVars, raceVars, populateVars>>
SearchFrame ==
    UNCHANGED <<keyVars, table, cascadeVars, updateVars, childVars, pagerVars, batchVars, deriveVars,
                mergeVars, listVars, relVars, convertVars, raceVars, populateVars>>
OwnerFrame ==
    UNCHANGED <<keyVars, cascadeVars, updateVars, childVars, pagerVars, batchVars, deriveVars, mergeVars,
                searchVars, listVars, relVars, convertVars, raceVars, populateVars>>
ListFrame ==
    UNCHANGED <<keyVars, cascadeVars, updateVars, childVars, pagerVars, batchVars, deriveVars,
                mergeVars, searchVars, relVars, convertVars, raceVars, populateVars>>
RelFrame ==
    UNCHANGED <<keyVars, table, cascadeVars, updateVars, childVars, pagerVars, batchVars, deriveVars,
                mergeVars, searchVars, listVars, convertVars, raceVars, populateVars>>
ConvertFrame ==
    UNCHANGED <<keyVars, table, cascadeVars, updateVars, childVars, pagerVars, batchVars, deriveVars,
                mergeVars, searchVars, listVars, relVars, raceVars, populateVars>>
RaceFrame ==
    UNCHANGED <<keyVars, cascadeVars, updateVars, childVars, pagerVars, batchVars, deriveVars,
                mergeVars, searchVars, listVars, relVars, convertVars, populateVars>>
PopulateFrame ==
    UNCHANGED <<keyVars, table, cascadeVars, updateVars, childVars, pagerVars, batchVars, deriveVars,
                mergeVars, searchVars, listVars, relVars, convertVars, raceVars>>

vars == <<kPc, kType, kParent, kId, kKey, kOut, table,
          dPc, dVariant, dQueried, dEnumerated, dPending, dChunks,
          dResult, writes, interfered,
          uClient, now, uPc, uArgs, uCurrent, lastOp, prevUpdatedAt,
          lastUpdatedAt, cClient, childOp,
          pgData, pgLimit, pgPc, pgCursor, pgExhausted, pgPage, allData,
          bVariant, bPc, bChunks, bUnprocessed, bAttempt, bSends, bLost, bResult,
          zShape, zAttrs,
          mData, mPc, mSummaries,
          sPersons, searchIndex, isIndexBuilding, lastDataHashRef, sBuilds,
          sStarted,
          gClient, gPc, gLastKey, gPersons,
          rPersonId, rPc, rResult,
          vNode, vDepth, vPc,
          xClient, xPc, xArgs, xCurrent, xDeleted,
          oPages, oNext, oIndex, oWhole, oWholeDone>>

(***************************************************************************)
(* Bounds                                                                  *)
(***************************************************************************)
MaxIdLen == 2
\* children, of all types together, a Person starts with
MaxChildren == 3
\* items that fit one result page of a Query (the store cuts a page at 1 MB)
QueryPageItems == 2
\* addresses created by another caller in one behaviour
MaxWrites == 1
\* last reading of the clock
MaxClock == 2
\* seeded items of one entity type
MaxItems == 2
\* largest maximum item count of a query
MaxPageSize == 2
\* wrappers nested around a base node of a derivation input
MaxWrap == 2
\* child records, of all four types together, of a search merge input
MaxMergeChildren == 2
\* index builds usePersonSearch starts in one behaviour
MaxBuilds == 3
MaxPageChildren == 1

(***************************************************************************)
(* JavaScript string helpers                                               *)
(***************************************************************************)

\* s.startsWith(p)
StartsWith(s, p) == Len(s) >= Len(p) /\ SubSeq(s, 1, Len(p)) = p

\* positions at which pat occurs in s
Occurrences(s, pat) ==
    {i \in 1..(Len(s) - Len(pat) + 1) : SubSeq(s, i, i + Len(pat) - 1) = pat}

\* s.replace(pat, rep) with a string pattern: only the first occurrence is
\* replaced, wherever it is; a string without the pattern is returned as is.
StringReplace(s, pat, rep) ==
    IF Occurrences(s, pat) = {} THEN s
    ELSE LET i == CHOOSE j \in Occurrences(s, pat) :
                      \A k \in Occurrences(s, pat) : j <= k
         IN SubSeq(s, 1, i - 1) \o rep \o SubSeq(s, i + Len(pat), Len(s))

(***************************************************************************)
(* Key codec: DynamoDBKeys                                                 *)
(***************************************************************************)
EntityTypes == {"PERSON", "ADDRESS", "BANK", "CONTACT", "EMPLOYMENT"}
ChildTypes == EntityTypes \ {"PERSON"}

PersonsPk(personId) == "PERSONS#" \o personId

person_pk(personId) == "PERSON#" \o personId
person_sk == "PROFILE"
person_gsi1pk == "PERSONS"
person_gsi1sk(personId) == "PERSON#" \o personId
address_pk(personId) == "PERSON#" \o personId
address_sk(addressId) == "ADDRESS#" \o addressId
bankAccount_pk(personId) == "PERSON#" \o personId
bankAccount_sk(bankId) == "BANK#" \o bankId
contactInfo_pk(personId) == "PERSON#" \o personId
contactInfo_sk(contactId) == "CONTACT#" \o contactId
employment_pk(personId) == "PERSON#" \o personId
employment_sk(employmentId) == "EMPLOYMENT#" \o employmentId

extractPersonId(pk) == StringReplace(pk, "PERSON#", "")
extractAddressId(sk) == StringReplace(sk, "ADDRESS#", "")
extractBankId(sk) == StringReplace(sk, "BANK#", "")
extractContactId(sk) == StringReplace(sk, "CONTACT#", "")
extractEmploymentId(sk) == StringReplace(sk, "EMPLOYMENT#", "")

\* the sort-key prefix of a child type
SkPrefix(t) == t \o "#"

\* key of an item, by the helper group of its entity type
KeyPk(t, personId) ==
    CASE t = "PERSON" -> person_pk(personId)
      [] t = "ADDRESS" -> address_pk(personId)
      [] t = "BANK" -> bankAccount_pk(personId)
      [] t = "CONTACT" -> contactInfo_pk(personId)
      [] t = "EMPLOYMENT" -> employment_pk(personId)

KeySk(t, id) ==
    CASE t = "PERSON" -> person_sk
      [] t = "ADDRESS" -> address_sk(id)
      [] t = "BANK" -> bankAccount_sk(id)
      [] t = "CONTACT" -> contactInfo_sk(id)
      [] t = "EMPLOYMENT" -> employment_sk(id)

\* the extract helper the callers use for a sort key of type t
ExtractChildId(t, sk) ==
    CASE t = "ADDRESS" -> extractAddressId(sk)
      [] t = "BANK" -> extractBankId(sk)
      [] t = "CONTACT" -> extractContactId(sk)
      [] t = "EMPLOYMENT" -> extractEmploymentId(sk)

(***************************************************************************)
(* Key codec inputs: ids built from a few tokens, with and without the     *)
(* separator                                                                *)
(***************************************************************************)
IdTokens == {"a", "PERSON", "#"}

RECURSIVE IdsOfLen(_)
IdsOfLen(n) ==
    IF n = 0 THEN {""}
    ELSE {s \o c : s \in IdsOfLen(n - 1), c \in IdTokens}

CodecIds == UNION {IdsOfLen(n) : n \in 1..MaxIdLen}

HasSeparator(s) == Occurrences(s, "#") # {}

NoKey == [pk |-> "", sk |-> ""]
NoOut == [threw |-> "none", personId |-> "", id |-> ""]

KeyInit ==
    /\ kPc = "input"
    /\ kType \in EntityTypes
    /\ kParent \in CodecIds
    /\ kId \in CodecIds
    /\ kKey = NoKey
    /\ kOut = NoOut

KeyIdle ==
    /\ kPc = "idle"
    /\ kType = "PERSON"
    /\ kParent = ""
    /\ kId = ""
    /\ kKey = NoKey
    /\ kOut = NoOut

\* build the primary key of the item (kType, kParent, kId)
Encode ==
    /\ kPc = "input"
    /\ kKey' = [pk |-> KeyPk(kType, kParent), sk |-> KeySk(kType, kId)]
    /\ kPc' = "encoded"
    /\ UNCHANGED <<kType, kParent, kId, kOut>>
    /\ KeyFrame

\* read the ids back from a key the codec built, as getAllPersons and the
\* list operations do with item.pk / item.sk
Decode ==
    /\ kPc = "encoded"
    /\ kOut' = [threw |-> "none",
                personId |-> extractPersonId(kKey.pk),
                id |-> IF kType = "PERSON" THEN ""
                       ELSE ExtractChildId(kType, kKey.sk)]
    /\ kPc' = "decoded"
    /\ UNCHANGED <<kType, kParent, kId, kKey>>
    /\ KeyFrame

\* hand the sort key of an item of type t (any type, PROFILE included) to
\* the extract helper of the child type kType
ParseSortKey(t) ==
    /\ kPc = "input"
    /\ kType \in ChildTypes
    /\ kKey' = [pk |-> KeyPk(t, kParent), sk |-> KeySk(t, kId)]
    /\ kOut' = [threw |-> "none",
                personId |-> extractPersonId(KeyPk(t, kParent)),
                id |-> ExtractChildId(kType, KeySk(t, kId))]
    /\ kPc' = "parsed"
    /\ UNCHANGED <<kType, kParent, kId>>
    /\ KeyFrame

KeyNext ==
    \/ Encode
    \/ Decode
    \/ \E t \in EntityTypes : ParseSortKey(t)

(***************************************************************************)
(* Entities and their stored form                                          *)
(***************************************************************************)
Undefined == "undefined"
Null == "null"

PersonAttrs == {"firstName", "lastName", "dateOfBirth", "gender",
                "createdAt", "updatedAt"}

ChildAttrs(t) ==
    CASE t = "ADDRESS" -> {"type", "street", "city", "state", "postalCode",
                           "country", "isPrimary"}
      [] t = "BANK" -> {"bankName", "accountType", "accountNumberLast4",
                        "iban", "bic", "isPrimary"}
      [] t = "CONTACT" -> {"type", "value", "isPrimary", "isVerified"}
      [] t = "EMPLOYMENT" -> {"companyName", "position", "department",
                              "startDate", "endDate", "isCurrent", "salary",
                              "currency"}

\* attributes holding a timestamp (milliseconds) or a boolean; all others
\* hold strings, or Undefined or Null
TypedAttrs == {"createdAt", "updatedAt", "isPrimary", "isVerified", "isCurrent"}

IsUndefined(item, a) == a \notin TypedAttrs /\ item[a] = Undefined

\* marshalling with removeUndefinedValues: an undefined attribute is not
\* written, a null one is
Marshall(item) ==
    [a \in {b \in DOMAIN item : ~IsUndefined(item, b)} |-> item[a]]

\* Item of the PutCommand of createPerson
PersonPutItem(person) ==
    Marshall([entityType |-> "PERSON",
              gsi1pk |-> person_gsi1pk,
              gsi1sk |-> person_gsi1sk(person.id),
              firstName |-> person.firstName,
              lastName |-> person.lastName,
              dateOfBirth |-> person.dateOfBirth,
              gender |-> person.gender,
              createdAt |-> person.createdAt,
              updatedAt |-> person.updatedAt])

\* Item of the PutCommand of createAddress, createBankAccount,
\* createContactInfo, createEmployment and of the update of each
ChildPutItem(t, child) ==
    Marshall([a \in ChildAttrs(t) \cup {"entityType"} |->
                 IF a = "entityType" THEN t ELSE child[a]])

PersonKey(personId) == [pk |-> person_pk(personId), sk |-> person_sk]
ChildKey(t, personId, id) == [pk |-> KeyPk(t, personId), sk |-> KeySk(t, id)]

\* the rows of the seeded data set
SamplePerson(p) ==
    [id |-> p, firstName |-> "Ada", lastName |-> "Lovelace",
     dateOfBirth |-> Undefined, gender |-> Undefined,
     createdAt |-> 1, updatedAt |-> 1]

SampleChild(t, p, id) ==
    CASE t = "ADDRESS" ->
           [id |-> id, personId |-> p, type |-> "home", street |-> "s1",
            city |-> "London", state |-> "st", postalCode |-> "z1",
            country |-> "UK", isPrimary |-> TRUE]
      [] t = "BANK" ->
           [id |-> id, personId |-> p, bankName |-> "b1",
            accountType |-> "checking", accountNumberLast4 |-> "1234",
            iban |-> Undefined, bic |-> Undefined, isPrimary |-> TRUE]
      [] t = "CONTACT" ->
           [id |-> id, personId |-> p, type |-> "email",
            value |-> "ada@example.com", isPrimary |-> TRUE,
            isVerified |-> FALSE]
      [] t = "EMPLOYMENT" ->
           [id |-> id, personId |-> p, companyName |-> "Bletchley",
            position |-> "analyst", department |-> Undefined,
            startDate |-> "2020", endDate |-> Null, isCurrent |-> TRUE,
            salary |-> Undefined, currency |-> "USD"]

(***************************************************************************)
(* The table: Query, DeleteItem, PutItem                                   *)
(***************************************************************************)
PersonIds == {"p1", "p2"}
ChildId(n) == "c" \o ToString(n)

\* sort keys in the byte order the store returns them in:
\* ADDRESS# < BANK# < CONTACT# < EMPLOYMENT# < PROFILE, ids ascending
TypeOrder == <<"ADDRESS", "BANK", "CONTACT", "EMPLOYMENT">>

RECURSIVE Sum(_, _)
Sum(f, S) ==
    IF S = {} THEN 0
    ELSE LET x == CHOOSE y \in S : TRUE IN f[x] + Sum(f, S \ {x})

RECURSIVE SksOfType(_, _)
SksOfType(t, n) ==
    IF n = 0 THEN <<>> ELSE Append(SksOfType(t, n - 1), KeySk(t, ChildId(n)))

SkOrder ==
    SksOfType(TypeOrder[1], MaxChildren + MaxWrites)
    \o SksOfType(TypeOrder[2], MaxChildren + MaxWrites)
    \o SksOfType(TypeOrder[3], MaxChildren + MaxWrites)
    \o SksOfType(TypeOrder[4], MaxChildren + MaxWrites)
    \o <<person_sk>>

Stored(key) == key \in DOMAIN table

Min(a, b) == IF a <= b THEN a ELSE b

ScanPrefix(pk, skPrefix) ==
    LET pks == {k.pk : k \in DOMAIN table}
        other == IF pks = {} THEN pk ELSE CHOOSE q \in pks : TRUE
        all == SelectSeq(SkOrder, LAMBDA sk :
                   Stored([pk |-> other, sk |-> sk]) /\ StartsWith(sk, skPrefix))
    IN [Items |-> [i \in 1..Len(all) |-> [pk |-> other, sk |-> all[i]]],
        LastEvaluatedKey |-> FALSE]

\* one QueryCommand / one ElectroDB query page: the items of partition pk
\* whose sort key begins with skPrefix, in sort-key order, cut at the page
\* size; LastEvaluatedKey tells that more items follow
Query(pk, skPrefix) ==
    LET all == SelectSeq(SkOrder, LAMBDA sk :
                   Stored([pk |-> pk, sk |-> sk]) /\ StartsWith(sk, skPrefix))
        n == Min(Len(all), QueryPageItems)
    IN [Items |-> [i \in 1..n |-> [pk |-> pk, sk |-> all[i]]],
        LastEvaluatedKey |-> Len(all) > n]

SeqToSet(s) == {s[i] : i \in 1..Len(s)}

\* DeleteItem / a DeleteRequest of a batch: removing an absent key is a no-op
DeleteItem(tbl, key) == [k \in (DOMAIN tbl) \ {key} |-> tbl[k]]

MergeItem(tbl, key, item) ==
    [k \in (DOMAIN tbl) \cup {key} |->
        IF k = key THEN (IF key \in DOMAIN tbl THEN item @@ tbl[key] ELSE item)
        ELSE tbl[k]]

\* PutItem: the item replaces whatever is stored under the key
PutItem(tbl, key, item) ==
    [k \in (DOMAIN tbl) \cup {key} |-> IF k = key THEN item ELSE tbl[k]]

MAX_BATCH_WRITE_ITEMS == 25

RECURSIVE chunkItems(_, _)
chunkItems(items, chunkSize) ==
    IF Len(items) = 0 THEN <<>>
    ELSE <<SubSeq(items, 1, Min(chunkSize, Len(items)))>>
         \o chunkItems(SubSeq(items, Min(chunkSize, Len(items)) + 1, Len(items)),
                       chunkSize)

(***************************************************************************)
(* The list operations of a parent                                         *)
(***************************************************************************)
\* getAddressesByPersonId, getBankAccountsByPersonId, getContactsByPersonId,
\* getEmploymentsByPersonId: the ids of the first result page
ListByParent(t, personId) ==
    LET page == Query(person_pk(personId), SkPrefix(t)).Items
    IN [i \in 1..Len(page) |-> ExtractChildId(t, page[i].sk)]

\* GetCommand: result.Item, as a sequence of no or one item
GetItem(key) == IF Stored(key) THEN <<table[key]>> ELSE <<>>

\* getPersonById: the item under (PERSON#id, PROFILE); the empty sequence
\* stands for the null returned when there is no item
getPersonById(personId) == GetItem(PersonKey(personId))

(***************************************************************************)
(* deletePerson                                                            *)
(***************************************************************************)
DeleteTarget == "p1"
Bystander == "p2"

\* a table holding the target with n[t] children of type t and a bystander
SeededTable(n) ==
    LET keys == {PersonKey(DeleteTarget), PersonKey(Bystander),
                 ChildKey("ADDRESS", Bystander, ChildId(1))}
                \cup {ChildKey(t, DeleteTarget, ChildId(i)) :
                        t \in ChildTypes, i \in 1..MaxChildren}
        present == {k \in keys :
                      \/ k.pk = person_pk(Bystander)
                      \/ k.sk = person_sk
                      \/ \E t \in ChildTypes : \E i \in 1..n[t] :
                            k = ChildKey(t, DeleteTarget, ChildId(i))}
        owner(k) == IF k.pk = person_pk(Bystander) THEN Bystander
                    ELSE DeleteTarget
        typeOf(k) == CHOOSE t \in ChildTypes : StartsWith(k.sk, SkPrefix(t))
    IN [k \in present |->
          IF k.sk = person_sk THEN PersonPutItem(SamplePerson(owner(k)))
          ELSE ChildPutItem(typeOf(k),
                            SampleChild(typeOf(k), owner(k),
                                        ExtractChildId(typeOf(k), k.sk)))]

TableIdle == table = SeededTable([t \in ChildTypes |-> 0])

CascadeIdle ==
    /\ dPc = "idle"
    /\ dVariant = "none"
    /\ dQueried = {}
    /\ dEnumerated = {}
    /\ dPending = {}
    /\ dChunks = <<>>
    /\ dResult = "none"
    /\ writes = 0
    /\ interfered = FALSE

CascadeInit ==
    /\ \E n \in [ChildTypes -> 0..MaxChildren] :
          /\ Sum(n, ChildTypes) <= MaxChildren
          /\ table = SeededTable(n)
    /\ dVariant \in {"electrodb", "ddb"}
    /\ dPc = "idle"
    /\ dQueried = {}
    /\ dEnumerated = {}
    /\ dPending = {}
    /\ dChunks = <<>>
    /\ dResult = "none"
    /\ writes = 0
    /\ interfered = FALSE

Running == dPc \in {"query", "delete", "batch"}

\* a caller invokes deletePerson(DeleteTarget)
BeginDeletePerson ==
    /\ dPc \in {"idle", "done"}
    /\ dPending = {}
    /\ dPc' = "query"
    /\ dQueried' = {}
    /\ dEnumerated' = {}
    /\ dChunks' = <<>>
    /\ dResult' = "none"
    /\ interfered' = FALSE
    /\ UNCHANGED <<table, dVariant, dPending, writes>>
    /\ CascadeFrame

\* personsClient: one of the four parallel queries returns its page; when
\* the last has returned, the deletes of the children found and of the
\* Person are all issued together
ElectroQuery(t) ==
    /\ dVariant = "electrodb"
    /\ dPc = "query"
    /\ t \notin dQueried
    /\ LET found == SeqToSet(Query(person_pk(DeleteTarget), SkPrefix(t)).Items)
       IN /\ dEnumerated' = dEnumerated \cup found
          /\ dQueried' = dQueried \cup {t}
          /\ IF dQueried' = ChildTypes
             THEN /\ dPc' = "delete"
                  /\ dPending' = dEnumerated' \cup {PersonKey(DeleteTarget)}
             ELSE UNCHANGED <<dPc, dPending>>
    /\ UNCHANGED <<table, dVariant, dChunks, dResult, writes, interfered>>
    /\ CascadeFrame

\* personsClient: one of the deletes of the Promise.all completes; the call
\* returns when the last one has
ElectroDelete(k) ==
    /\ dVariant = "electrodb"
    /\ dPc = "delete"
    /\ k \in dPending
    /\ table' = DeleteItem(table, k)
    /\ dPending' = dPending \ {k}
    /\ IF dPending' = {}
       THEN /\ dPc' = "done"
            /\ dResult' = IF dResult = "error" THEN "error" ELSE "void"
       ELSE UNCHANGED <<dPc, dResult>>
    /\ UNCHANGED <<dVariant, dQueried, dEnumerated, dChunks, writes, interfered>>
    /\ CascadeFrame

\* document client: the single query over the partition; no item found
\* returns false, otherwise the delete requests are chunked and the first
\* batch is sent
DdbQuery ==
    /\ dVariant = "ddb"
    /\ dPc = "query"
    /\ LET items == Query(person_pk(DeleteTarget), "").Items
           chunks == chunkItems(items, MAX_BATCH_WRITE_ITEMS)
       IN IF Len(items) = 0
          THEN /\ dPc' = "done"
               /\ dResult' = "false"
               /\ UNCHANGED <<dEnumerated, dPending, dChunks>>
          ELSE /\ dPc' = "batch"
               /\ dEnumerated' = {k \in SeqToSet(items) : k.sk # person_sk}
               /\ dPending' = SeqToSet(Head(chunks))
               /\ dChunks' = Tail(chunks)
               /\ UNCHANGED dResult
    /\ UNCHANGED <<table, dVariant, dQueried, writes,
                   interfered>>
    /\ CascadeFrame

\* the store applies one delete request of the batch in flight
DdbBatchApply(k) ==
    /\ dVariant = "ddb"
    /\ dPc = "batch"
    /\ k \in dPending
    /\ table' = DeleteItem(table, k)
    /\ dPending' = dPending \ {k}
    /\ UNCHANGED <<dPc, dVariant, dQueried, dEnumerated, dChunks, dResult,
                   writes, interfered>>
    /\ CascadeFrame

\* the BatchWriteCommand returns; requests not applied come back as
\* UnprocessedItems, which the loop does not look at; the next chunk is
\* sent, or true is returned after the last
DdbBatchReturn ==
    /\ dVariant = "ddb"
    /\ dPc = "batch"
    /\ IF dChunks # <<>>
       THEN /\ dPending' = SeqToSet(Head(dChunks))
            /\ dChunks' = Tail(dChunks)
            /\ UNCHANGED <<dPc, dResult>>
       ELSE /\ dPending' = {}
            /\ dPc' = "done"
            /\ dResult' = "true"
            /\ UNCHANGED dChunks
    /\ UNCHANGED <<table, dVariant, dQueried, dEnumerated, writes, interfered>>
    /\ CascadeFrame

\* a store call in flight raises a transient error: a rejected query or
\* batch ends the call; a rejected delete of the Promise.all rejects the
\* call while the other deletes stay in flight
StoreError ==
    /\ Running
    /\ dResult' = "error"
    /\ IF dPc = "delete"
       THEN \E k \in dPending :
              /\ dPending' = dPending \ {k}
              /\ dPc' = IF dPending' = {} THEN "done" ELSE "delete"
       ELSE /\ dPending' = {}
            /\ dPc' = "done"
    /\ UNCHANGED <<table, dVariant, dQueried, dEnumerated, dChunks, writes, interfered>>
    /\ CascadeFrame

\* another caller creates an address of the target under a fresh id
CreateAddress ==
    /\ writes < MaxWrites
    /\ writes' = writes + 1
    /\ LET id == ChildId(MaxChildren + writes + 1)
       IN table' = PutItem(table, ChildKey("ADDRESS", DeleteTarget, id),
                           ChildPutItem("ADDRESS",
                                        SampleChild("ADDRESS", DeleteTarget, id)))
    /\ interfered' = (interfered \/ Running)
    /\ UNCHANGED <<dPc, dVariant, dQueried, dEnumerated, dPending, dChunks,
                   dResult>>
    /\ CascadeFrame

CascadeNext ==
    \/ BeginDeletePerson
    \/ \E t \in ChildTypes : ElectroQuery(t)
    \/ \E k \in dPending : ElectroDelete(k)
    \/ DdbQuery
    \/ \E k \in dPending : DdbBatchApply(k)
    \/ DdbBatchReturn
    \/ StoreError
    \/ CreateAddress

(***************************************************************************)
(* createPerson and updatePerson                                           *)
(***************************************************************************)
Callers == {"u1", "u2"}
UpdateTarget == "p1"

\* a timestamp attribute that is not there
NoTime == 0

PersonFields == {"firstName", "lastName", "dateOfBirth", "gender",
                 "createdAt", "updatedAt"}
DataFields == {"firstName", "lastName", "dateOfBirth", "gender"}

\* attributes: required: true of PersonEntity, id being part of the key
RequiredPersonAttrs == {"firstName", "lastName", "createdAt", "updatedAt"}

\* the value of field a of a stored item
Attr(item, a) ==
    IF a \in DOMAIN item THEN item[a]
    ELSE IF a \in TypedAttrs THEN NoTime ELSE Undefined

IsMissing(person, a) ==
    IF a \in TypedAttrs THEN person[a] = NoTime ELSE person[a] = Undefined

\* the Person read back from an item
PersonOf(item) == [a \in PersonFields |-> Attr(item, a)]

\* PersonSchema.safeParse of the attributes returned by the UpdateCommand
PersonSchemaValid(person) ==
    \A a \in RequiredPersonAttrs : ~IsMissing(person, a)

\* the attributes ElectroDB refuses to put without
ElectroValid(person) ==
    \A a \in RequiredPersonAttrs : ~IsMissing(person, a)

\* marshalling of a Person: attributes that are not there are not written
MarshallPerson(person) ==
    [a \in {b \in DOMAIN person : ~IsMissing(person, b)} |-> person[a]]

\* the item PersonEntity.put writes: the attributes and the GSI1 keys
ElectroPersonItem(personId, person) ==
    MarshallPerson(person)
    @@ [gsi1pk |-> "PERSONS",
        gsi1sk |-> person.lastName \o "#" \o person.firstName \o "#" \o personId]

\* the value a caller supplies for a data field
NewValue(f) ==
    CASE f = "firstName" -> "Grace"
      [] f = "lastName" -> "Hopper"
      [] f = "dateOfBirth" -> "1906-12-09"
      [] f = "gender" -> "female"

\* the id and timestamps a caller supplies with its updates: none, an
\* updatedAt read from the caller's own clock, which stands at the first
\* instant, or a createdAt with another id
SuppliedStamps ==
    {[id |-> Undefined, createdAt |-> NoTime, updatedAt |-> NoTime],
     [id |-> Undefined, createdAt |-> NoTime, updatedAt |-> 1],
     [id |-> Bystander, createdAt |-> MaxClock, updatedAt |-> NoTime]}

\* the data fields a caller supplies together
SuppliedFields ==
    {{}, {"firstName"}, {"lastName"}, {"dateOfBirth"}, {"gender"},
     {"firstName", "lastName"}, DataFields}

\* Partial<Person>: a field that is not supplied is Undefined (NoTime for a
\* timestamp)
PartialPersons ==
    {[f \in PersonFields \cup {"id"} |->
         IF f \in {"id", "createdAt", "updatedAt"} THEN st[f]
         ELSE IF f \in S THEN NewValue(f) ELSE Undefined] :
       S \in SuppliedFields, st \in SuppliedStamps}

NoUpdates ==
    [f \in PersonFields \cup {"id"} |->
        IF f \in TypedAttrs THEN NoTime ELSE Undefined]

NoOp ==
    [op |-> "none", outcome |-> "none", updates |-> NoUpdates,
     before |-> <<>>, after |-> <<>>, lacks |-> FALSE]

UpdateIdle ==
    /\ uClient = "none"
    /\ now = 1
    /\ uPc = [c \in Callers |-> "idle"]
    /\ uArgs = [c \in Callers |-> NoUpdates]
    /\ uCurrent = [c \in Callers |-> <<>>]
    /\ lastOp = NoOp
    /\ prevUpdatedAt = NoTime
    /\ lastUpdatedAt = NoTime

UpdateInit ==
    /\ uClient \in {"electrodbPut", "electrodbPatch", "ddb"}
    /\ now = 1
    /\ uPc = [c \in Callers |-> "idle"]
    /\ uArgs = [c \in Callers |-> NoUpdates]
    /\ uCurrent = [c \in Callers |-> <<>>]
    /\ lastOp = NoOp
    /\ prevUpdatedAt = NoTime
    /\ lastUpdatedAt = NoTime
    /\ table \in {SeededTable([t \in ChildTypes |-> 0]),
                  DeleteItem(SeededTable([t \in ChildTypes |-> 0]),
                             PersonKey(UpdateTarget))}

NoCallInFlight == \A c \in Callers : uPc[c] = "idle"

\* the result of an updatePerson: its outcome, its effect on the stored
\* item, and the updatedAt of the Person it returned
Returned(outcome, updates, after, lacks, resultUpdatedAt) ==
    /\ lastOp' = [op |-> "updatePerson", outcome |-> outcome,
                  updates |-> updates,
                  before |-> getPersonById(UpdateTarget),
                  after |-> after, lacks |-> lacks]
    /\ IF outcome = "ok"
       THEN /\ prevUpdatedAt' = lastUpdatedAt
            /\ lastUpdatedAt' = resultUpdatedAt
       ELSE UNCHANGED <<prevUpdatedAt, lastUpdatedAt>>

\* the clock advances by a millisecond
Tick ==
    /\ now < MaxClock
    /\ now' = now + 1
    /\ UNCHANGED <<table, uClient, uPc, uArgs, uCurrent, lastOp,
                   prevUpdatedAt, lastUpdatedAt>>
    /\ UpdateFrame

\* the persons createPerson is called with
NewPersons ==
    {[id |-> UpdateTarget, firstName |-> f, lastName |-> "Lovelace",
      dateOfBirth |-> Undefined, gender |-> Undefined,
      createdAt |-> now, updatedAt |-> now] : f \in {"Ada", Undefined}}

\* createPerson(person) for an id that is not stored: PersonEntity.put
\* checks the required attributes, the PutCommand of the document client
\* writes what it is given
createPerson ==
    /\ NoCallInFlight
    /\ ~Stored(PersonKey(UpdateTarget))
    /\ \E person \in NewPersons :
       LET key == PersonKey(UpdateTarget)
           lacks == ~ElectroValid(person)
           item == IF uClient = "ddb" THEN PersonPutItem(person)
                   ELSE ElectroPersonItem(UpdateTarget, person)
           rejected == uClient # "ddb" /\ lacks
       IN /\ table' = IF rejected THEN table ELSE PutItem(table, key, item)
          /\ lastOp' = [op |-> "createPerson",
                        outcome |-> IF rejected THEN "ValidationError" ELSE "ok",
                        updates |-> NoUpdates,
                        before |-> <<>>,
                        after |-> IF rejected THEN <<>> ELSE <<item>>,
                        lacks |-> lacks]
    /\ prevUpdatedAt' = NoTime
    /\ lastUpdatedAt' = NoTime
    /\ UNCHANGED <<uClient, now, uPc, uArgs, uCurrent>>
    /\ UpdateFrame

TakeUpdate(a, b) == a

\* a ?? b
Coalesce(a, b) == IF a = Undefined THEN b ELSE a

\* personsClient.updatePerson, get-merge-put: PersonEntity.get returns; an
\* absent person ends the call with an error
updatePerson_get(c, updates) ==
    /\ uClient = "electrodbPut"
    /\ NoCallInFlight
    /\ IF Stored(PersonKey(UpdateTarget))
       THEN /\ uPc' = [uPc EXCEPT ![c] = "got"]
            /\ uArgs' = [uArgs EXCEPT ![c] = updates]
            /\ uCurrent' = [uCurrent EXCEPT ![c] = getPersonById(UpdateTarget)]
            /\ UNCHANGED <<lastOp, prevUpdatedAt, lastUpdatedAt>>
       ELSE /\ Returned("NotFound", updates, <<>>, FALSE, NoTime)
            /\ UNCHANGED <<uPc, uArgs, uCurrent>>
    /\ UNCHANGED <<table, uClient, now>>
    /\ UpdateFrame

\* personsClient.updatePerson, get-merge-put: the merge of the item read
\* with the updates is put, replacing the stored item
updatePerson_put(c) ==
    /\ uClient = "electrodbPut"
    /\ uPc[c] = "got"
    /\ LET current == PersonOf(uCurrent[c][1])
           updates == uArgs[c]
           updatedPerson ==
               [firstName |-> Coalesce(updates.firstName, current.firstName),
                lastName |-> Coalesce(updates.lastName, current.lastName),
                dateOfBirth |-> Coalesce(updates.dateOfBirth, current.dateOfBirth),
                gender |-> Coalesce(updates.gender, current.gender),
                createdAt |-> current.createdAt,
                updatedAt |-> IF updates.updatedAt # NoTime
                              THEN updates.updatedAt ELSE now]
           item == ElectroPersonItem(UpdateTarget, updatedPerson)
       IN IF ElectroValid(updatedPerson)
          THEN /\ table' = PutItem(table, PersonKey(UpdateTarget), item)
               /\ Returned("ok", updates, <<item>>, FALSE,
                           updatedPerson.updatedAt)
          ELSE /\ table' = table
               /\ Returned("ValidationError", updates,
                           getPersonById(UpdateTarget), TRUE, NoTime)
    /\ uPc' = [uPc EXCEPT ![c] = "idle"]
    /\ uArgs' = [uArgs EXCEPT ![c] = NoUpdates]
    /\ uCurrent' = [uCurrent EXCEPT ![c] = <<>>]
    /\ UNCHANGED <<uClient, now>>
    /\ UpdateFrame

\* personsClient.updatePerson, patch: the supplied attributes are set on the
\* stored item; the patch is refused when the person is absent, when the
\* key attribute is supplied, and when one name of the GSI1 sort key is
\* supplied without the other
updatePerson_patch(updates) ==
    /\ uClient = "electrodbPatch"
    /\ NoCallInFlight
    /\ LET key == PersonKey(UpdateTarget)
           names == {f \in {"firstName", "lastName"} : updates[f] # Undefined}
           supplied == MarshallPerson(updates)
           old == table[key]
           gsi == IF names = {} THEN [x \in {} |-> x]
                  ELSE [gsi1sk |-> updates.lastName \o "#" \o updates.firstName
                                       \o "#" \o UpdateTarget]
           item == gsi @@ supplied @@ old
       IN IF ~Stored(key)
          THEN /\ table' = table
               /\ Returned("ConditionalCheckFailed", updates, <<>>, FALSE, NoTime)
          ELSE IF updates.id # Undefined \/ Cardinality(names) = 1
          THEN /\ table' = table
               /\ Returned("ElectroError", updates, <<old>>, FALSE, NoTime)
          ELSE /\ table' = PutItem(table, key, item)
               /\ Returned("ok", updates, <<item>>, FALSE,
                           Attr(item, "updatedAt"))
    /\ UNCHANGED <<uClient, now, uPc, uArgs, uCurrent>>
    /\ UpdateFrame

\* react.ts updatePerson: one UpdateCommand that sets updatedAt and the
\* supplied data fields on the item under the key, creating the item when
\* there is none; the attributes returned are parsed with PersonSchema
updatePerson_ddb(updates) ==
    /\ uClient = "ddb"
    /\ NoCallInFlight
    /\ LET key == PersonKey(UpdateTarget)
           sets == [updatedAt |-> now]
                   @@ [f \in {g \in DataFields : updates[g] # Undefined} |->
                          updates[f]]
           item == sets @@ (IF Stored(key) THEN table[key] ELSE [x \in {} |-> x])
           lacks == \E a \in RequiredPersonAttrs : a \notin DOMAIN item
       IN /\ table' = PutItem(table, key, item)
          /\ Returned(IF PersonSchemaValid(PersonOf(item)) THEN "ok" ELSE "null",
                      updates, <<item>>, lacks, Attr(item, "updatedAt"))
    /\ UNCHANGED <<uClient, now, uPc, uArgs, uCurrent>>
    /\ UpdateFrame

UpdateNext ==
    \/ Tick
    \/ createPerson
    \/ \E c \in Callers : \E updates \in PartialPersons : updatePerson_get(c, updates)
    \/ \E c \in Callers : updatePerson_put(c)
    \/ \E updates \in PartialPersons : updatePerson_patch(updates)
    \/ \E updates \in PartialPersons : updatePerson_ddb(updates)

(***************************************************************************)
(* The updates of the children                                             *)
(***************************************************************************)
OptionalAttrs(t) ==
    CASE t = "ADDRESS" -> {}
      [] t = "BANK" -> {"iban", "bic"}
      [] t = "CONTACT" -> {}
      [] t = "EMPLOYMENT" -> {"department", "endDate", "salary"}

\* the flag of a child: isPrimary, or isCurrent of an employment
FlagAttr(t) == IF t = "EMPLOYMENT" THEN "isCurrent" ELSE "isPrimary"

\* the values a caller supplies for an optional attribute; only endDate is
\* nullable; a number is written as DynamoDB transmits it
OptionalValues(a) ==
    CASE a = "iban" -> {Undefined, "DE89370400440532013000"}
      [] a = "bic" -> {Undefined, "COBADEFF"}
      [] a = "department" -> {Undefined, "R&D"}
      [] a = "endDate" -> {Undefined, Null, "2021-01-01"}
      [] a = "salary" -> {Undefined, "50000"}

\* the children of type t an update is called with, all for one id of the
\* target person
SuppliedChildren(t) ==
    LET base == SampleChild(t, UpdateTarget, ChildId(1))
        values == UNION {OptionalValues(a) : a \in OptionalAttrs(t)}
        opts == {f \in [OptionalAttrs(t) -> values] :
                   \A a \in OptionalAttrs(t) : f[a] \in OptionalValues(a)}
    IN {[a \in DOMAIN base |->
            IF a \in OptionalAttrs(t) THEN f[a]
            ELSE IF a = FlagAttr(t) THEN b
            ELSE base[a]] : f \in opts, b \in BOOLEAN}

\* normalizeEmployment: endDate ?? undefined
normalizeEmployment(employment) ==
    [employment EXCEPT !.endDate = IF @ = Null THEN Undefined ELSE @]

\* the item AddressEntity.put, BankAccountEntity.put, ContactInfoEntity.put
\* and EmploymentEntity.put write: the attributes that have a value
ElectroChildItem(t, child) ==
    Marshall([a \in ChildAttrs(t) \cup {"id", "personId"} |-> child[a]])

\* the item a child update of the client writes
ChildItem(t, child) ==
    IF cClient = "ddb" THEN ChildPutItem(t, child)
    ELSE IF t = "EMPLOYMENT" THEN ElectroChildItem(t, normalizeEmployment(child))
    ELSE ElectroChildItem(t, child)

\* the child read back from the item under key: the document client takes
\* the id from the sort key and the personId from its argument, ElectroDB
\* returns the attributes of the item
ReadChild(t, personId, key) ==
    LET item == table[key]
    IN [a \in ChildAttrs(t) \cup {"id", "personId"} |->
           IF cClient = "ddb" /\ a = "id" THEN ExtractChildId(t, key.sk)
           ELSE IF cClient = "ddb" /\ a = "personId" THEN personId
           ELSE Attr(item, a)]

NoChildOp ==
    [op |-> "none", type |-> "none", supplied |-> <<>>, previous |-> <<>>]

ChildIdle ==
    /\ cClient = "none"
    /\ childOp = NoChildOp

\* one child of the target person is stored, written by the client
ChildInit ==
    /\ cClient \in {"electrodb", "ddb"}
    /\ childOp = NoChildOp
    /\ \E t \in ChildTypes : \E child \in SuppliedChildren(t) :
          table = PutItem(SeededTable([u \in ChildTypes |-> 0]),
                          ChildKey(t, child.personId, child.id),
                          ChildItem(t, child))

\* updateAddress of a stored address: AddressEntity.put / PutCommand
updateAddress(address) ==
    LET key == ChildKey("ADDRESS", address.personId, address.id)
    IN /\ Stored(key)
       /\ table' = PutItem(table, key, ChildItem("ADDRESS", address))
       /\ childOp' = [op |-> "updateAddress", type |-> "ADDRESS", supplied |-> address,
                      previous |-> table[key]]
       /\ UNCHANGED cClient
       /\ ChildFrame

\* updateBankAccount of a stored account: BankAccountEntity.put / PutCommand
updateBankAccount(bankAccount) ==
    LET key == ChildKey("BANK", bankAccount.personId, bankAccount.id)
    IN /\ Stored(key)
       /\ table' = PutItem(table, key, ChildItem("BANK", bankAccount))
       /\ childOp' = [op |-> "updateBankAccount", type |-> "BANK", supplied |-> bankAccount,
                      previous |-> table[key]]
       /\ UNCHANGED cClient
       /\ ChildFrame

\* updateContact, updateContactInfo of a stored contact: ContactInfoEntity.put /
\* PutCommand
updateContact(contact) ==
    LET key == ChildKey("CONTACT", contact.personId, contact.id)
    IN /\ Stored(key)
       /\ table' = PutItem(table, key, ChildItem("CONTACT", contact))
       /\ childOp' = [op |-> "updateContact", type |-> "CONTACT", supplied |-> contact,
                      previous |-> table[key]]
       /\ UNCHANGED cClient
       /\ ChildFrame

\* updateEmployment of a stored employment: EmploymentEntity.put of the
\* normalized employment / PutCommand
updateEmployment(employment) ==
    LET key == ChildKey("EMPLOYMENT", employment.personId, employment.id)
    IN /\ Stored(key)
       /\ table' = PutItem(table, key, ChildItem("EMPLOYMENT", employment))
       /\ childOp' = [op |-> "updateEmployment", type |-> "EMPLOYMENT", supplied |-> employment,
                      previous |-> table[key]]
       /\ UNCHANGED cClient
       /\ ChildFrame

ChildNext ==
    \/ \E address \in SuppliedChildren("ADDRESS") : updateAddress(address)
    \/ \E bankAccount \in SuppliedChildren("BANK") : updateBankAccount(bankAccount)
    \/ \E contact \in SuppliedChildren("CONTACT") : updateContact(contact)
    \/ \E employment \in SuppliedChildren("EMPLOYMENT") : updateEmployment(employment)

(***************************************************************************)
(* The cross-entity pager and the loop that drains it                      *)
(***************************************************************************)
\* the sub-cursor of an entity type that has no further items
Nil == -1

\* the cursor a drain starts from: every sub-cursor before the first item
InitialCursor == [t \in EntityTypes |-> 0]

\* the seeded items of type t, in the order of the index
SeededItems(t) == [i \in 1..pgData[t] |-> <<t, i>>]

\* one bounded query of entity type t from sub-cursor c: at most limit
\* items after position c; the store hands back a continuation key when
\* the query stopped at the limit, and none when it ran out of items
QueryType(t, c, limit) ==
    IF c = Nil THEN [items |-> <<>>, cursor |-> Nil]
    ELSE LET n == Min(limit, pgData[t] - c)
         IN [items |-> [i \in 1..n |-> <<t, c + i>>],
             cursor |-> IF n = limit THEN c + n ELSE Nil]

FirstCursorNil(cursor) == cursor["PERSON"] = Nil

\* the page is exhausted only when every sub-cursor is nil
Exhausted(cursor) == \A t \in EntityTypes : cursor[t] = Nil

\* nextPage(cursor): one bounded query per entity type from that type's
\* sub-cursor, merged into one page grouped by type
nextPage(cursor) ==
    LET result == [t \in EntityTypes |-> QueryType(t, cursor[t], pgLimit)]
        next == [t \in EntityTypes |-> result[t].cursor]
    IN [page |-> [t \in EntityTypes |-> result[t].items],
        cursor |-> next,
        exhausted |-> Exhausted(next)]

LoopOnFirstCursor(result) == result.cursor["PERSON"] # Nil

\* while (cursor): the loop goes on while the pager has more
LoopAgain(result) == ~result.exhausted

NoPage == [t \in EntityTypes |-> <<>>]

PagerIdle ==
    /\ pgData = [t \in EntityTypes |-> 0]
    /\ pgLimit = 1
    /\ pgPc = "idle"
    /\ pgCursor = InitialCursor
    /\ pgExhausted = FALSE
    /\ pgPage = NoPage
    /\ allData = NoPage

PagerInit ==
    /\ pgData \in [EntityTypes -> 0..MaxItems]
    /\ pgLimit \in 1..MaxPageSize
    /\ pgPc = "idle"
    /\ pgCursor = InitialCursor
    /\ pgExhausted = FALSE
    /\ pgPage = NoPage
    /\ allData = NoPage

\* one iteration of the do-while loop of loadAllDataForOrama: fetch the
\* page at the cursor, merge it into allData by type, keep the cursor for
\* the next iteration, and leave the loop when there is no more
loadAllDataForOrama ==
    /\ pgPc \in {"idle", "fetching"}
    /\ LET result == nextPage(pgCursor)
       IN /\ allData' = [t \in EntityTypes |-> allData[t] \o result.page[t]]
          /\ pgCursor' = result.cursor
          /\ pgExhausted' = result.exhausted
          /\ pgPage' = result.page
          /\ pgPc' = IF LoopAgain(result) THEN "fetching" ELSE "exhausted"
    /\ UNCHANGED <<pgData, pgLimit>>
    /\ PagerFrame

PagerNext == loadAllDataForOrama

(***************************************************************************)
(* batchWritePersons and retryBatchWrite                                   *)
(***************************************************************************)
MAX_RETRY_ATTEMPTS == 3

BatchTarget == "p3"

\* allItems of a person with n addresses: the Person item, then the
\* address items
BatchKeys(n) ==
    <<PersonKey(BatchTarget)>>
    \o [i \in 1..n |-> ChildKey("ADDRESS", BatchTarget, ChildId(i))]

\* the Item of the PutRequest under key
BatchItem(key) ==
    IF key.sk = person_sk THEN PersonPutItem(SamplePerson(BatchTarget))
    ELSE ChildPutItem("ADDRESS",
                      SampleChild("ADDRESS", BatchTarget,
                                  ExtractChildId("ADDRESS", key.sk)))

\* the store applies the put requests of keys
PutItems(tbl, keys) ==
    [k \in (DOMAIN tbl) \cup keys |->
        IF k \in keys THEN BatchItem(k) ELSE tbl[k]]

BatchIdle ==
    /\ bVariant = "none"
    /\ bPc = "idle"
    /\ bChunks = <<>>
    /\ bUnprocessed = {}
    /\ bAttempt = 0
    /\ bSends = 0
    /\ bLost = {}
    /\ bResult = "none"

BatchInit ==
    /\ bVariant \in {"batchWritePersons", "retryBatchWrite"}
    /\ bPc = "idle"
    /\ bChunks = <<>>
    /\ bUnprocessed = {}
    /\ bAttempt = 0
    /\ bSends = 0
    /\ bLost = {}
    /\ bResult = "none"
    /\ TableIdle

\* a caller invokes batchWritePersons with one person and its addresses,
\* or retryBatchWrite with the requests of one chunk and attempt 0
BeginBatchWrite ==
    /\ bPc = "idle"
    /\ \E n \in 0..MaxChildren :
          LET chunks == chunkItems(BatchKeys(n), MAX_BATCH_WRITE_ITEMS)
          IN /\ bUnprocessed' = SeqToSet(Head(chunks))
             /\ bChunks' = Tail(chunks)
    /\ bPc' = "loop"
    /\ bAttempt' = 0
    /\ bSends' = 0
    /\ UNCHANGED <<table, bVariant, bLost, bResult>>
    /\ BatchFrame

\* batchWritePersons, one iteration of the while loop: the command is
\* sent, the store applies some of its requests and returns the others as
\* UnprocessedItems, which count an attempt
batchWritePersons_send ==
    /\ bVariant = "batchWritePersons"
    /\ bPc = "loop"
    /\ bUnprocessed # {}
    /\ bAttempt < MAX_RETRY_ATTEMPTS
    /\ \E applied \in SUBSET bUnprocessed :
          /\ table' = PutItems(table, applied)
          /\ bUnprocessed' = bUnprocessed \ applied
          /\ bAttempt' = IF bUnprocessed' # {} THEN bAttempt + 1 ELSE bAttempt
    /\ bSends' = bSends + 1
    /\ UNCHANGED <<bVariant, bPc, bChunks, bLost, bResult>>
    /\ BatchFrame

\* batchWritePersons, the while loop is left: the for loop takes the next
\* chunk, or the function returns after the last
batchWritePersons_next ==
    /\ bVariant = "batchWritePersons"
    /\ bPc = "loop"
    /\ ~(bUnprocessed # {} /\ bAttempt < MAX_RETRY_ATTEMPTS)
    /\ bLost' = bLost \cup bUnprocessed
    /\ IF bChunks # <<>>
       THEN /\ bUnprocessed' = SeqToSet(Head(bChunks))
            /\ bChunks' = Tail(bChunks)
            /\ bAttempt' = 0
            /\ bSends' = 0
            /\ UNCHANGED <<bPc, bResult>>
       ELSE /\ bPc' = "done"
            /\ bResult' = "void"
            /\ UNCHANGED <<bUnprocessed, bChunks, bAttempt, bSends>>
    /\ UNCHANGED <<table, bVariant>>
    /\ BatchFrame

\* retryBatchWrite, one call of the recursion: the command is sent; with
\* nothing unprocessed, or after the last attempt, the call returns,
\* otherwise it calls itself with the unprocessed requests
retryBatchWrite ==
    /\ bVariant = "retryBatchWrite"
    /\ bPc = "loop"
    /\ \E applied \in SUBSET bUnprocessed :
          /\ table' = PutItems(table, applied)
          /\ bUnprocessed' = bUnprocessed \ applied
    /\ bSends' = bSends + 1
    /\ IF bUnprocessed' = {}
       THEN /\ bPc' = "done"
            /\ bResult' = "void"
            /\ UNCHANGED <<bAttempt, bLost>>
       ELSE IF bAttempt + 1 >= MAX_RETRY_ATTEMPTS
       THEN /\ bPc' = "done"
            /\ bResult' = "void"
            /\ bLost' = bLost \cup bUnprocessed'
            /\ UNCHANGED bAttempt
       ELSE /\ bAttempt' = bAttempt + 1
            /\ UNCHANGED <<bPc, bResult, bLost>>
    /\ UNCHANGED <<bVariant, bChunks>>
    /\ BatchFrame

BatchNext ==
    \/ BeginBatchWrite
    \/ batchWritePersons_send
    \/ batchWritePersons_next
    \/ retryBatchWrite

(***************************************************************************)
(* Schema derivation: zodToElectroDBAttributes                             *)
(***************************************************************************)
\* a JavaScript value with its typeof; values of different types are kept
\* apart by kind
Val(kind, repr) == [kind |-> kind, repr |-> repr]

\* a function default: the values its successive calls return
Thunk(returns) == [kind |-> "function", returns |-> returns]

\* an ElectroDB attribute type: a storage type name, or the list of the
\* allowed string values
StorageType(name) == [name |-> name, values |-> <<>>]

AllowedValues(values) == [name |-> "", values |-> values]

\* Zod nodes by their def: def.type and, by node kind, innerType,
\* defaultValue, options / entries, value
ZString == [type |-> "string"]

ZNumber == [type |-> "number"]

ZBoolean == [type |-> "boolean"]

ZEnum(options) == [type |-> "enum", options |-> options, entries |-> options]

ZLiteral(value) == [type |-> "literal", value |-> value]

ZOptional(inner) == [type |-> "optional", innerType |-> inner]

ZNullable(inner) == [type |-> "nullable", innerType |-> inner]

ZDefault(inner, defaultValue) ==
    [type |-> "default", innerType |-> inner, defaultValue |-> defaultValue]

getZodTypeName(schema) == schema.type

\* schema.unwrap?.() ?? schema
unwrapSchema(schema) ==
    IF "innerType" \in DOMAIN schema THEN schema.innerType ELSE schema

\* a function default is invoked; its result is that of its next call, one
\* call per derivation
resolveDefaultValue(defaultValue) ==
    IF defaultValue.kind = "function"
    THEN defaultValue.returns[Len(zAttrs) + 1]
    ELSE defaultValue

\* { ...a, ...b }: the fields of b override those of a
Spread(a, b) == b @@ a

RECURSIVE convertZodType(_)

handleWrapperTypeInnerWins(typeName, zodType) ==
    IF typeName \in {"optional", "nullable"}
    THEN <<Spread([required |-> FALSE], convertZodType(unwrapSchema(zodType)))>>
    ELSE IF typeName = "default"
    THEN <<Spread(convertZodType(unwrapSchema(zodType)),
                  [default |-> resolveDefaultValue(zodType.defaultValue)])>>
    ELSE <<>>

\* the handlers return <<attribute>>, or <<>> for null
handleWrapperType(typeName, zodType) ==
    IF typeName \in {"optional", "nullable"}
    THEN <<Spread(convertZodType(unwrapSchema(zodType)), [required |-> FALSE])>>
    ELSE IF typeName = "default"
    THEN <<Spread(convertZodType(unwrapSchema(zodType)),
                  [default |-> resolveDefaultValue(zodType.defaultValue)])>>
    ELSE <<>>

handlePrimitiveType(typeName) ==
    IF typeName = "string"
    THEN <<[type |-> StorageType("string"), required |-> TRUE]>>
    ELSE IF typeName \in {"number", "int"}
    THEN <<[type |-> StorageType("number"), required |-> TRUE]>>
    ELSE IF typeName = "boolean"
    THEN <<[type |-> StorageType("boolean"), required |-> TRUE]>>
    ELSE <<>>

handleEnumType(typeName, zodType) ==
    IF typeName = "enum"
    THEN IF Len(zodType.options) > 0
         THEN <<[type |-> AllowedValues(zodType.options), required |-> TRUE]>>
         ELSE <<[type |-> AllowedValues(zodType.entries), required |-> TRUE]>>
    ELSE <<>>

handleCollectionType(typeName) ==
    IF typeName \in {"array", "tuple"}
    THEN <<[type |-> StorageType("list"), required |-> TRUE]>>
    ELSE IF typeName \in {"object", "record"}
    THEN <<[type |-> StorageType("map"), required |-> TRUE]>>
    ELSE <<>>

handleUnionType(typeName) ==
    IF typeName = "union"
    THEN <<[type |-> StorageType("any"), required |-> TRUE]>>
    ELSE IF typeName = "intersection"
    THEN <<[type |-> StorageType("map"), required |-> TRUE]>>
    ELSE <<>>

handlePipeType(typeName, zodType) ==
    IF typeName \in {"pipe", "transform"}
    THEN <<convertZodType(unwrapSchema(zodType))>>
    ELSE <<>>

handleLiteralType(typeName, zodType) ==
    IF typeName # "literal" THEN <<>>
    ELSE IF zodType.value.kind = "string"
    THEN <<[type |-> AllowedValues(<<zodType.value.repr>>), required |-> TRUE]>>
    ELSE IF zodType.value.kind = "number"
    THEN <<[type |-> StorageType("number"), required |-> TRUE]>>
    ELSE IF zodType.value.kind = "boolean"
    THEN <<[type |-> StorageType("boolean"), required |-> TRUE]>>
    ELSE <<[type |-> StorageType("any"), required |-> TRUE]>>

\* a ?? b over the handlers' results
OrElse(a, b) == IF a # <<>> THEN a ELSE b

convertZodType(zodType) ==
    LET typeName == getZodTypeName(zodType)
    IN OrElse(handleWrapperType(typeName, zodType),
       OrElse(handlePrimitiveType(typeName),
       OrElse(handleEnumType(typeName, zodType),
       OrElse(handleCollectionType(typeName),
       OrElse(handleUnionType(typeName),
       OrElse(handlePipeType(typeName, zodType),
       OrElse(handleLiteralType(typeName, zodType),
              <<[type |-> StorageType("string"), required |-> TRUE]>>)))))))[1]

(***************************************************************************)
(* Schema derivation inputs: base nodes under at most MaxWrap wrappers,    *)
(* and the five entity schemas of types/person.ts                          *)
(***************************************************************************)
GenderEnum == ZEnum(<<"male", "female", "other", "prefer_not_to_say">>)

AddressTypeEnum == ZEnum(<<"home", "work", "billing", "shipping">>)

AccountTypeEnum == ZEnum(<<"checking", "savings", "investment">>)

ContactTypeEnum == ZEnum(<<"email", "phone", "mobile", "linkedin", "twitter">>)

\* the values a generator default returns on its first and second call
FreshValues == <<Val("string", "g1"), Val("string", "g2")>>

DefaultValues ==
    {Val("boolean", "false"), Val("string", "USD"),
     Thunk(<<Val("string", "USD"), Val("string", "USD")>>),
     Thunk(FreshValues)}

BaseNodes ==
    {[type |-> t] : t \in {"string", "number", "int", "boolean", "array",
                           "object", "union", "date"}}
    \cup {AccountTypeEnum, ZEnum(<<>>)}
    \cup {ZLiteral(Val("string", "home")), ZLiteral(Val("number", "1")),
          ZLiteral(Val("boolean", "true"))}

WrapperTypes == {"optional", "nullable", "default"}

Wrap(nodes) ==
    {ZOptional(n) : n \in nodes} \cup {ZNullable(n) : n \in nodes}
    \cup {ZDefault(n, d) : n \in nodes, d \in DefaultValues}

RECURSIVE NodesUpTo(_)
NodesUpTo(depth) ==
    IF depth = 0 THEN BaseNodes
    ELSE LET inner == NodesUpTo(depth - 1) IN inner \cup Wrap(inner)

Nodes == NodesUpTo(MaxWrap)

PersonSchema ==
    [id |-> ZString, firstName |-> ZString, lastName |-> ZString,
     dateOfBirth |-> ZOptional(ZString), gender |-> ZOptional(GenderEnum),
     createdAt |-> ZString, updatedAt |-> ZString]

AddressSchema ==
    [id |-> ZString, personId |-> ZString, type |-> AddressTypeEnum,
     street |-> ZString, city |-> ZString, state |-> ZString,
     postalCode |-> ZString, country |-> ZString,
     isPrimary |-> ZDefault(ZBoolean, Val("boolean", "false"))]

BankAccountSchema ==
    [id |-> ZString, personId |-> ZString, bankName |-> ZString,
     accountType |-> AccountTypeEnum, accountNumberLast4 |-> ZString,
     iban |-> ZOptional(ZString), bic |-> ZOptional(ZString),
     isPrimary |-> ZDefault(ZBoolean, Val("boolean", "false"))]

ContactInfoSchema ==
    [id |-> ZString, personId |-> ZString, type |-> ContactTypeEnum,
     value |-> ZString,
     isPrimary |-> ZDefault(ZBoolean, Val("boolean", "false")),
     isVerified |-> ZDefault(ZBoolean, Val("boolean", "false"))]

EmploymentSchema ==
    [id |-> ZString, personId |-> ZString, companyName |-> ZString,
     position |-> ZString, department |-> ZOptional(ZString),
     startDate |-> ZString, endDate |-> ZOptional(ZNullable(ZString)),
     isCurrent |-> ZDefault(ZBoolean, Val("boolean", "false")),
     salary |-> ZOptional(ZNumber),
     currency |-> ZDefault(ZString, Val("string", "USD"))]

EntitySchemas ==
    {PersonSchema, AddressSchema, BankAccountSchema, ContactInfoSchema,
     EmploymentSchema}

Shapes == {[field |-> n] : n \in Nodes} \cup EntitySchemas

(***************************************************************************)
(* The hand-written attributes of electrodb/entities.ts                    *)
(***************************************************************************)
PersonEntityAttributes ==
    [id |-> [type |-> StorageType("string"), required |-> TRUE],
     firstName |-> [type |-> StorageType("string"), required |-> TRUE],
     lastName |-> [type |-> StorageType("string"), required |-> TRUE],
     dateOfBirth |-> [type |-> StorageType("string")],
     gender |-> [type |-> AllowedValues(<<"male", "female", "other",
                                          "prefer_not_to_say">>)],
     createdAt |-> [type |-> StorageType("string"), required |-> TRUE],
     updatedAt |-> [type |-> StorageType("string"), required |-> TRUE]]

AddressEntityAttributes ==
    [id |-> [type |-> StorageType("string"), required |-> TRUE],
     personId |-> [type |-> StorageType("string"), required |-> TRUE],
     type |-> [type |-> AllowedValues(<<"home", "work", "billing", "shipping">>),
               required |-> TRUE],
     street |-> [type |-> StorageType("string"), required |-> TRUE],
     city |-> [type |-> StorageType("string"), required |-> TRUE],
     state |-> [type |-> StorageType("string"), required |-> TRUE],
     postalCode |-> [type |-> StorageType("string"), required |-> TRUE],
     country |-> [type |-> StorageType("string"), required |-> TRUE],
     isPrimary |-> [type |-> StorageType("boolean"),
                    default |-> Val("boolean", "false")]]

BankAccountEntityAttributes ==
    [id |-> [type |-> StorageType("string"), required |-> TRUE],
     personId |-> [type |-> StorageType("string"), required |-> TRUE],
     bankName |-> [type |-> StorageType("string"), required |-> TRUE],
     accountType |-> [type |-> AllowedValues(<<"checking", "savings",
                                               "investment">>),
                      required |-> TRUE],
     accountNumberLast4 |-> [type |-> StorageType("string"), required |-> TRUE],
     iban |-> [type |-> StorageType("string")],
     bic |-> [type |-> StorageType("string")],
     isPrimary |-> [type |-> StorageType("boolean"),
                    default |-> Val("boolean", "false")]]

ContactInfoEntityAttributes ==
    [id |-> [type |-> StorageType("string"), required |-> TRUE],
     personId |-> [type |-> StorageType("string"), required |-> TRUE],
     type |-> [type |-> AllowedValues(<<"email", "phone", "mobile", "linkedin",
                                        "twitter">>),
               required |-> TRUE],
     value |-> [type |-> StorageType("string"), required |-> TRUE],
     isPrimary |-> [type |-> StorageType("boolean"),
                    default |-> Val("boolean", "false")],
     isVerified |-> [type |-> StorageType("boolean"),
                     default |-> Val("boolean", "false")]]

EmploymentEntityAttributes ==
    [id |-> [type |-> StorageType("string"), required |-> TRUE],
     personId |-> [type |-> StorageType("string"), required |-> TRUE],
     companyName |-> [type |-> StorageType("string"), required |-> TRUE],
     position |-> [type |-> StorageType("string"), required |-> TRUE],
     department |-> [type |-> StorageType("string")],
     startDate |-> [type |-> StorageType("string"), required |-> TRUE],
     endDate |-> [type |-> StorageType("string")],
     isCurrent |-> [type |-> StorageType("boolean"),
                    default |-> Val("boolean", "false")],
     salary |-> [type |-> StorageType("number")],
     currency |-> [type |-> StorageType("string"),
                   default |-> Val("string", "USD")]]

\* the hand-written attributes of the entity a schema belongs to
EntityAttributes(schema) ==
    CASE schema = PersonSchema -> PersonEntityAttributes
      [] schema = AddressSchema -> AddressEntityAttributes
      [] schema = BankAccountSchema -> BankAccountEntityAttributes
      [] schema = ContactInfoSchema -> ContactInfoEntityAttributes
      [] schema = EmploymentSchema -> EmploymentEntityAttributes

\* ElectroDB takes an attribute without a required flag as not required
IsRequired(attribute) ==
    IF "required" \in DOMAIN attribute THEN attribute.required ELSE FALSE

\* the default of an attribute as <<value>>, <<>> without one
DefaultOf(attribute) ==
    IF "default" \in DOMAIN attribute THEN <<attribute.default>> ELSE <<>>

NoShape == [none |-> ZString]

DeriveIdle ==
    /\ zShape = NoShape
    /\ zAttrs = <<>>

DeriveInit ==
    /\ zShape \in Shapes
    /\ zAttrs = <<>>
    /\ TableIdle

\* one derivation of the attribute map of the schema; the module that holds
\* the entities derives once at load, a second load derives again
zodToElectroDBAttributes ==
    /\ Len(zAttrs) < Len(FreshValues)
    /\ zAttrs' = Append(zAttrs,
                        [key \in DOMAIN zShape |-> convertZodType(zShape[key])])
    /\ UNCHANGED zShape
    /\ DeriveFrame

DeriveNext == zodToElectroDBAttributes

(***************************************************************************)
(* Person search: mergeEntitiesToSummaries                                 *)
(***************************************************************************)
\* the ids of the Person records of an input
MergeIds == {"p1", "p2"}

\* a personId that no Person record of an input carries
Orphan == "p9"

ContactTypes == {"email", "phone", "mobile", "linkedin"}

\* the i-th record of an input list carries values of its own
ValueAt(field, i) == field \o ToString(i)

Front(list) == SubSeq(list, 1, Len(list) - 1)

Last(list) == list[Len(list)]

\* summaryMap.set(id, summary) always appending: a second record of one id
\* adds a second summary
MapAppend(summaryMap, summary) == Append(summaryMap, summary)

\* summaryMap.set(id, summary): a Map keeps one entry per key, at the place
\* of its first insertion
MapSet(summaryMap, summary) ==
    IF \E k \in DOMAIN summaryMap : summaryMap[k].id = summary.id
    THEN [k \in DOMAIN summaryMap |->
             IF summaryMap[k].id = summary.id THEN summary ELSE summaryMap[k]]
    ELSE Append(summaryMap, summary)

\* summaryMap.get(personId) followed by assignments to the summary found;
\* nothing happens when the map has no such key
Assign(summaryMap, personId, fields) ==
    [k \in DOMAIN summaryMap |->
        IF summaryMap[k].id = personId THEN fields @@ summaryMap[k]
        ELSE summaryMap[k]]

NewSummary(person) ==
    [id |-> person.id, firstName |-> person.firstName,
     lastName |-> person.lastName, city |-> Undefined, country |-> Undefined,
     email |-> Undefined, phone |-> Undefined, companyName |-> Undefined,
     position |-> Undefined, bankName |-> Undefined]

RECURSIVE StartWithPersons(_)
StartWithPersons(persons) ==
    IF persons = <<>> THEN <<>>
    ELSE MapSet(StartWithPersons(Front(persons)), NewSummary(Last(persons)))

RECURSIVE AddAddresses(_, _)
AddAddresses(summaryMap, addresses) ==
    IF addresses = <<>> THEN summaryMap
    ELSE LET before == AddAddresses(summaryMap, Front(addresses))
             address == Last(addresses)
         IN IF address.isPrimary
            THEN Assign(before, address.personId,
                        [city |-> address.city, country |-> address.country])
            ELSE before

RECURSIVE AddContacts(_, _)
AddContacts(summaryMap, contacts) ==
    IF contacts = <<>> THEN summaryMap
    ELSE LET before == AddContacts(summaryMap, Front(contacts))
             contact == Last(contacts)
         IN IF ~contact.isPrimary THEN before
            ELSE IF contact.type = "email"
            THEN Assign(before, contact.personId, [email |-> contact.value])
            ELSE IF contact.type \in {"phone", "mobile"}
            THEN Assign(before, contact.personId, [phone |-> contact.value])
            ELSE before

RECURSIVE AddEmploymentsAnyFlag(_, _)
AddEmploymentsAnyFlag(summaryMap, employments) ==
    IF employments = <<>> THEN summaryMap
    ELSE LET before == AddEmploymentsAnyFlag(summaryMap, Front(employments))
             employment == Last(employments)
         IN Assign(before, employment.personId,
                   [companyName |-> employment.companyName,
                    position |-> employment.position])

RECURSIVE AddEmployments(_, _)
AddEmployments(summaryMap, employments) ==
    IF employments = <<>> THEN summaryMap
    ELSE LET before == AddEmployments(summaryMap, Front(employments))
             employment == Last(employments)
         IN IF employment.isCurrent
            THEN Assign(before, employment.personId,
                        [companyName |-> employment.companyName,
                         position |-> employment.position])
            ELSE before

RECURSIVE AddBankAccounts(_, _)
AddBankAccounts(summaryMap, bankAccounts) ==
    IF bankAccounts = <<>> THEN summaryMap
    ELSE LET before == AddBankAccounts(summaryMap, Front(bankAccounts))
             bank == Last(bankAccounts)
         IN IF bank.isPrimary
            THEN Assign(before, bank.personId, [bankName |-> bank.bankName])
            ELSE before

\* the five loops in the order of the code; the result lists the values of
\* the map in insertion order
MergeEntities(data) ==
    AddBankAccounts(
        AddEmployments(
            AddContacts(
                AddAddresses(StartWithPersons(data.persons), data.addresses),
                data.contacts),
            data.employments),
        data.bankAccounts)

(***************************************************************************)
(* Search merge inputs: lists of Person records, including repeated ids,   *)
(* and child lists of MaxMergeChildren records in all, each record of any  *)
(* Person of the input or of none                                          *)
(***************************************************************************)
Owners == MergeIds \cup {Orphan}

PersonLists ==
    UNION {{[i \in 1..len |->
                [id |-> ids[i], firstName |-> ValueAt("first", i),
                 lastName |-> ValueAt("last", i)]] :
            ids \in [1..len -> MergeIds]} : len \in 0..Cardinality(MergeIds)}

AddressLists(len) ==
    {[i \in 1..len |->
         [personId |-> f[i][1], isPrimary |-> f[i][2],
          city |-> ValueAt("city", i), country |-> ValueAt("country", i)]] :
     f \in [1..len -> Owners \X BOOLEAN]}

ContactLists(len) ==
    {[i \in 1..len |->
         [personId |-> f[i][1], isPrimary |-> f[i][2], type |-> f[i][3],
          value |-> ValueAt("value", i)]] :
     f \in [1..len -> Owners \X BOOLEAN \X ContactTypes]}

EmploymentLists(len) ==
    {[i \in 1..len |->
         [personId |-> f[i][1], isCurrent |-> f[i][2],
          companyName |-> ValueAt("company", i),
          position |-> ValueAt("position", i)]] :
     f \in [1..len -> Owners \X BOOLEAN]}

BankAccountLists(len) ==
    {[i \in 1..len |->
         [personId |-> f[i][1], isPrimary |-> f[i][2],
          bankName |-> ValueAt("bank", i)]] :
     f \in [1..len -> Owners \X BOOLEAN]}

NoData ==
    [persons |-> <<>>, addresses |-> <<>>, contacts |-> <<>>,
     employments |-> <<>>, bankAccounts |-> <<>>]

MergeIdle ==
    /\ mData = NoData
    /\ mPc = "idle"
    /\ mSummaries = <<>>

MergeInit ==
    /\ \E la, lc, le, lb \in 0..MaxMergeChildren :
          /\ la + lc + le + lb <= MaxMergeChildren
          /\ mData \in [persons : PersonLists, addresses : AddressLists(la),
                        contacts : ContactLists(lc),
                        employments : EmploymentLists(le),
                        bankAccounts : BankAccountLists(lb)]
    /\ mPc = "input"
    /\ mSummaries = <<>>
    /\ TableIdle

mergeEntitiesToSummaries ==
    /\ mPc = "input"
    /\ mSummaries' = MergeEntities(mData)
    /\ mPc' = "done"
    /\ UNCHANGED mData
    /\ MergeFrame

MergeNext == mergeEntitiesToSummaries

(***************************************************************************)
(* usePersonSearch: the effect that builds the search index                *)
(***************************************************************************)
\* the ids of the persons of the collection, in the order Array.sort gives
IdOrder == <<"a", "b">>

Rank(id) == CHOOSE i \in DOMAIN IdOrder : IdOrder[i] = id

RECURSIVE Join(_)
Join(ids) ==
    IF ids = <<>> THEN ""
    ELSE IF Len(ids) = 1 THEN ids[1]
    ELSE Join(Front(ids)) \o "," \o Last(ids)

\* the data hash with the ids joined in the order they were delivered
DataHashUnsorted(delivered) == Join(delivered)

\* persons.map((p) => p.id).sort().join(',')
DataHash(delivered) ==
    Join(SortSeq(delivered, LAMBDA x, y : Rank(x) < Rank(y)))

\* the arrays a live query can deliver: each person once, in any order
PersonArrays ==
    UNION {{ids \in [1..len -> {IdOrder[i] : i \in DOMAIN IdOrder}] :
               \A i, j \in 1..len : i # j => ids[i] # ids[j]} :
           len \in 0..Len(IdOrder)}

NoIndex == [built |-> FALSE, docs |-> <<>>]

\* buildIndex up to its first await: TRUE when it goes on to build
StartsBuild(delivered, index, lastDataHash) ==
    /\ Len(delivered) # 0
    /\ ~(DataHash(delivered) = lastDataHash /\ index.built)

SearchIdle ==
    /\ sPersons = <<>>
    /\ searchIndex = NoIndex
    /\ isIndexBuilding = FALSE
    /\ lastDataHashRef = ""
    /\ sBuilds = <<>>
    /\ sStarted = 0

SearchInit == SearchIdle /\ TableIdle

\* the persons collection delivers an array; the component renders and the
\* effect runs buildIndex up to its first await
refresh ==
    /\ \E delivered \in PersonArrays :
          /\ sPersons' = delivered
          /\ IF StartsBuild(delivered, searchIndex, lastDataHashRef)
             THEN /\ sStarted < MaxBuilds
                  /\ isIndexBuilding' = TRUE
                  /\ sBuilds' = Append(sBuilds, [dataHash |-> DataHash(delivered),
                                                 persons |-> delivered])
                  /\ sStarted' = sStarted + 1
             ELSE UNCHANGED <<isIndexBuilding, sBuilds, sStarted>>
    /\ UNCHANGED <<searchIndex, lastDataHashRef>>
    /\ SearchFrame

\* a buildIndex call gets its index and fills it: setSearchIndex, the hash
\* is recorded, isIndexBuilding is reset; the new searchIndex makes the
\* effect run again, with the persons of the latest render
buildIndex_resolve ==
    /\ \E i \in DOMAIN sBuilds :
          LET build == sBuilds[i]
              rest == SubSeq(sBuilds, 1, i - 1) \o SubSeq(sBuilds, i + 1, Len(sBuilds))
              index == [built |-> TRUE, docs |-> build.persons]
          IN /\ searchIndex' = index
             /\ lastDataHashRef' = build.dataHash
             /\ IF StartsBuild(sPersons, index, build.dataHash)
                THEN /\ sStarted < MaxBuilds
                     /\ isIndexBuilding' = TRUE
                     /\ sBuilds' = Append(rest, [dataHash |-> DataHash(sPersons),
                                                 persons |-> sPersons])
                     /\ sStarted' = sStarted + 1
                ELSE /\ isIndexBuilding' = FALSE
                     /\ sBuilds' = rest
                     /\ UNCHANGED sStarted
    /\ UNCHANGED sPersons
    /\ SearchFrame

\* createPersonSearchIndex or addMultipleToIndex rejects: only the finally
\* block runs
buildIndex_reject ==
    /\ \E i \in DOMAIN sBuilds :
          sBuilds' = SubSeq(sBuilds, 1, i - 1) \o SubSeq(sBuilds, i + 1, Len(sBuilds))
    /\ isIndexBuilding' = FALSE
    /\ UNCHANGED <<sPersons, searchIndex, lastDataHashRef, sStarted>>
    /\ SearchFrame

SearchNext ==
    \/ refresh
    \/ buildIndex_resolve
    \/ buildIndex_reject

(***************************************************************************)
(* Child creates, and the GSI2 sort keys of the entities                   *)
(***************************************************************************)
\* the id the callers of the child creates supply
OwnedIds == {ChildId(1)}

Clients == {"electrodb", "ddb"}

\* createAddress, createBankAccount, createContact, createEmployment and the
\* update of the same name: one put under (personId, id) of the child, with
\* no condition
CreatedTable(client, t, personId, id) ==
    PutItem(table, ChildKey(t, personId, id),
            IF client = "ddb" THEN ChildPutItem(t, SampleChild(t, personId, id))
            ELSE ElectroChildItem(t, SampleChild(t, personId, id)))

createAddress ==
    /\ \E client \in Clients, personId \in PersonIds, id \in OwnedIds :
          table' = CreatedTable(client, "ADDRESS", personId, id)
    /\ OwnerFrame

createBankAccount ==
    /\ \E client \in Clients, personId \in PersonIds, id \in OwnedIds :
          table' = CreatedTable(client, "BANK", personId, id)
    /\ OwnerFrame

createContact ==
    /\ \E client \in Clients, personId \in PersonIds, id \in OwnedIds :
          table' = CreatedTable(client, "CONTACT", personId, id)
    /\ OwnerFrame

createEmployment ==
    /\ \E client \in Clients, personId \in PersonIds, id \in OwnedIds :
          table' = CreatedTable(client, "EMPLOYMENT", personId, id)
    /\ OwnerFrame

OwnerNext ==
    \/ createAddress
    \/ createBankAccount
    \/ createContact
    \/ createEmployment

\* entity type, owner and id of a stored item, from its key
TypeOfKey(key) ==
    IF key.sk = person_sk THEN "PERSON"
    ELSE CHOOSE t \in ChildTypes : StartsWith(key.sk, SkPrefix(t))

OwnerOfKey(key) == extractPersonId(key.pk)

IdOfKey(key) ==
    IF key.sk = person_sk THEN OwnerOfKey(key)
    ELSE ExtractChildId(TypeOfKey(key), key.sk)

\* model.entity of the entity of a type, in the lower case ElectroDB gives
\* the labels of a key
EntityLabel(t) ==
    CASE t = "PERSON" -> "person"
      [] t = "ADDRESS" -> "address"
      [] t = "BANK" -> "bankaccount"
      [] t = "CONTACT" -> "contactinfo"
      [] t = "EMPLOYMENT" -> "employment"

\* gsi2sk of the allData index, as its '#'-separated segments: ElectroDB
\* starts a sort key with $<entity>_<version> and appends <attribute>_<value>
\* for each attribute of the composite, ['id'] for a Person and
\* ['personId', 'id'] for a child
Gsi2Sk(t, personId, id) ==
    IF t = "PERSON"
    THEN <<"$" \o EntityLabel(t) \o "_1", "id_" \o id>>
    ELSE <<"$" \o EntityLabel(t) \o "_1", "personid_" \o personId, "id_" \o id>>

\* the segments that occur, in byte order
SegmentOrder ==
    <<"$address_1", "$bankaccount_1", "$contactinfo_1", "$employment_1",
      "$person_1", "id_c1", "id_p1", "id_p2", "personid_p1", "personid_p2">>

SegmentRank(segment) ==
    CHOOSE i \in DOMAIN SegmentOrder : SegmentOrder[i] = segment

\* byte order of two sort keys of segments of which none is a proper prefix
\* of another
RECURSIVE SortsBefore(_, _)
SortsBefore(a, b) ==
    IF a = <<>> THEN b # <<>>
    ELSE IF b = <<>> THEN FALSE
    ELSE IF a[1] = b[1] THEN SortsBefore(Tail(a), Tail(b))
    ELSE SegmentRank(a[1]) < SegmentRank(b[1])

Gsi2SkOfKey(key) == Gsi2Sk(TypeOfKey(key), OwnerOfKey(key), IdOfKey(key))

(***************************************************************************)
(* getAllPersons                                                           *)
(***************************************************************************)
\* the persons of the listing, in the order of their gsi1sk; more than fit
\* two result pages
ListOrder == [i \in 1..(QueryPageItems + 3) |-> "p" \o ToString(i)]

\* a table holding the Person items of the ids, as the client writes them
ListedTable(client, ids) ==
    [key \in {PersonKey(p) : p \in ids} |->
        LET p == extractPersonId(key.pk)
        IN IF client = "ddb" THEN PersonPutItem(SamplePerson(p))
           ELSE ElectroPersonItem(p, SamplePerson(p))]

\* one Query of GSI1 with gsi1pk = PERSONS and ExclusiveStartKey at place
\* start, of which the store returns the first size items: the places of the
\* items and that of LastEvaluatedKey, 0 when the listing is at its end
QueryGsi1(start, size) ==
    LET all == SelectSeq([i \in DOMAIN ListOrder |-> i],
                         LAMBDA i : i > start /\ Stored(PersonKey(ListOrder[i])))
        n == Min(Len(all), size)
    IN [Items |-> SubSeq(all, 1, n),
        LastEvaluatedKey |-> IF Len(all) > n THEN all[n] ELSE 0]

ListIdle ==
    /\ gClient = "none"
    /\ gPc = "idle"
    /\ gLastKey = 0
    /\ gPersons = <<>>

ListInit ==
    /\ gClient \in Clients
    /\ gPc = "query"
    /\ gLastKey = 0
    /\ gPersons = <<>>
    /\ \E ids \in SUBSET {ListOrder[i] : i \in DOMAIN ListOrder} :
          table = ListedTable(gClient, ids)

\* document client: one turn of the do-while loop; the items of the page
\* that pass PersonSchema.safeParse are pushed, the loop ends without a
\* LastEvaluatedKey
getAllPersons_ddb ==
    /\ gClient = "ddb"
    /\ gPc = "query"
    /\ \E size \in 1..QueryPageItems :
          LET result == QueryGsi1(gLastKey, size)
              ids == [i \in DOMAIN result.Items |-> ListOrder[result.Items[i]]]
          IN /\ gPersons' = gPersons \o
                   SelectSeq(ids, LAMBDA p :
                       PersonSchemaValid(PersonOf(table[PersonKey(p)])))
             /\ gLastKey' = result.LastEvaluatedKey
             /\ gPc' = IF result.LastEvaluatedKey # 0 THEN "query" ELSE "done"
    /\ UNCHANGED <<table, gClient>>
    /\ ListFrame

\* personsClient: query.allPersons({}).go() is one request; the data of its
\* page is returned and the cursor is dropped
getAllPersons_electrodb ==
    /\ gClient = "electrodb"
    /\ gPc = "query"
    /\ \E size \in 1..QueryPageItems :
          LET result == QueryGsi1(0, size)
          IN gPersons' = [i \in DOMAIN result.Items |-> ListOrder[result.Items[i]]]
    /\ gPc' = "done"
    /\ UNCHANGED <<table, gClient, gLastKey>>
    /\ ListFrame

ListNext ==
    \/ getAllPersons_ddb
    \/ getAllPersons_electrodb

(***************************************************************************)
(* getPersonWithRelations                                                  *)
(***************************************************************************)
\* the null the call returns: no item in the partition, or no Person item
\* among the items read
NoRelations ==
    [found |-> FALSE, person |-> <<>>,
     lists |-> [t \in ChildTypes |-> <<>>]]

\* the partitions the call runs against: the Person item or none, and of
\* each child type the children c1..cn, as the document client writes them
RelTable(withPerson, count) ==
    LET keys == (IF withPerson THEN {PersonKey(p) : p \in PersonIds} ELSE {})
                \cup {ChildKey(t, p, ChildId(n)) :
                         t \in {u \in ChildTypes : count[u] > 0},
                         p \in PersonIds, n \in 1..MaxChildren}
        kept == {k \in keys :
                   \/ k.sk = person_sk
                   \/ \E t \in ChildTypes, n \in 1..MaxChildren :
                         /\ n <= count[t]
                         /\ k.sk = KeySk(t, ChildId(n))}
    IN [k \in kept |->
           LET p == extractPersonId(k.pk)
           IN IF k.sk = person_sk THEN PersonPutItem(SamplePerson(p))
              ELSE LET t == CHOOSE u \in ChildTypes : StartsWith(k.sk, SkPrefix(u))
                   IN ChildPutItem(t, SampleChild(t, p, ExtractChildId(t, k.sk)))]

RelIdle ==
    /\ rPersonId = "none"
    /\ rPc = "idle"
    /\ rResult = NoRelations

RelInit ==
    /\ rPersonId \in PersonIds
    /\ rPc = "call"
    /\ rResult = NoRelations
    /\ \E withPerson \in BOOLEAN, count \in [ChildTypes -> 0..MaxChildren] :
          table = RelTable(withPerson, count)

\* the items of the one QueryCommand are sorted into the Person and the four
\* lists by their entityType attribute; the id of a child is cut from its
\* sort key; null without items or without a Person item that parses
getPersonWithRelations ==
    /\ rPc = "call"
    /\ LET result == Query(person_pk(rPersonId), "")
           ofType(t) == SelectSeq(result.Items,
                            LAMBDA k : Attr(table[k], "entityType") = t)
           parsed == SelectSeq(ofType("PERSON"),
                         LAMBDA k : PersonSchemaValid(PersonOf(table[k])))
       IN rResult' =
              IF Len(result.Items) = 0 \/ Len(parsed) = 0 THEN NoRelations
              ELSE [found |-> TRUE,
                    person |-> <<PersonOf(table[Last(parsed)])>>,
                    lists |-> [t \in ChildTypes |->
                                  [i \in 1..Len(ofType(t)) |->
                                      ExtractChildId(t, ofType(t)[i].sk)]]]
    /\ rPc' = "done"
    /\ UNCHANGED rPersonId
    /\ RelFrame

RelNext == getPersonWithRelations

(***************************************************************************)
(* convertZodType, call by call                                            *)
(***************************************************************************)
\* z.transform(fn), and schema.transform(fn) = schema.pipe(z.transform(fn)):
\* a pipe holds its source type under def.in; neither node has unwrap()
ZTransform == [type |-> "transform"]

ZPipe(source) == [type |-> "pipe", in |-> source, out |-> ZTransform]

PipeNodes == {ZTransform} \cup {ZPipe(n) : n \in NodesUpTo(MaxWrap - 1)}

ConvertInputs == Nodes \cup PipeNodes \cup Wrap(PipeNodes)

\* the engine's call stack holds the calls of the deepest finite tree and
\* a few more
StackLimit == MaxWrap + 3

\* the node the call on zodType makes its nested call on, <<>> when the
\* call returns an attribute without a nested call
NestedCall(zodType) ==
    LET typeName == getZodTypeName(zodType)
    IN IF typeName \in {"optional", "nullable", "default"}
       THEN <<unwrapSchema(zodType)>>
       ELSE IF typeName \in {"pipe", "transform"}
       THEN <<unwrapSchema(zodType)>>
       ELSE <<>>

ConvertIdle ==
    /\ vNode = ZString
    /\ vDepth = 0
    /\ vPc = "idle"

ConvertInit ==
    /\ vNode \in ConvertInputs
    /\ vDepth = 1
    /\ vPc = "call"

\* one call of convertZodType: a wrapper, pipe or transform node makes a
\* nested call on unwrapSchema(zodType); any other node returns, and with it
\* the calls around it
convertZodType_call ==
    /\ vPc = "call"
    /\ vDepth < StackLimit
    /\ IF NestedCall(vNode) = <<>>
       THEN /\ vPc' = "returned"
            /\ UNCHANGED <<vNode, vDepth>>
       ELSE /\ vNode' = NestedCall(vNode)[1]
            /\ vDepth' = vDepth + 1
            /\ vPc' = "call"
    /\ ConvertFrame

\* a nested call with the stack full throws RangeError: no attribute is
\* returned
convertZodType_overflow ==
    /\ vPc = "call"
    /\ vDepth = StackLimit
    /\ vPc' = "overflow"
    /\ UNCHANGED <<vNode, vDepth>>
    /\ ConvertFrame

ConvertNext ==
    \/ convertZodType_call
    \/ convertZodType_overflow

(***************************************************************************)
(* updatePerson under concurrent calls                                     *)
(***************************************************************************)
\* the sets of fields one call sets; both names go together, as the GSI1
\* sort key of the entity is built from both
FieldChoices == {{"firstName", "lastName"}, {"gender"}, {"dateOfBirth"}}

\* the updates argument setting the fields S
UpdatesOf(S) ==
    [f \in PersonFields \cup {"id"} |->
        IF f \in S THEN NewValue(f)
        ELSE IF f \in TypedAttrs THEN NoTime ELSE Undefined]

RaceIdle ==
    /\ xClient = "none"
    /\ xPc = [c \in Callers |-> "idle"]
    /\ xArgs = [c \in Callers |-> {}]
    /\ xCurrent = [c \in Callers |-> <<>>]
    /\ xDeleted = FALSE

RaceInit ==
    /\ xClient \in {"electrodbPut", "electrodbPatch", "ddb"}
    /\ xPc = [c \in Callers |-> "start"]
    /\ xArgs \in [Callers -> FieldChoices]
    /\ xCurrent = [c \in Callers |-> <<>>]
    /\ xDeleted = FALSE
    /\ \E stored \in BOOLEAN :
          table = IF stored
                  THEN [k \in {PersonKey(UpdateTarget)} |->
                           IF xClient = "ddb"
                           THEN PersonPutItem(SamplePerson(UpdateTarget))
                           ELSE ElectroPersonItem(UpdateTarget,
                                                  SamplePerson(UpdateTarget))]
                  ELSE [k \in {} |-> k]

\* get-merge-put, first request: PersonEntity.get; the call throws when no
\* item is returned
concurrentUpdatePerson_get ==
    /\ xClient = "electrodbPut"
    /\ \E c \in Callers :
          /\ xPc[c] = "start"
          /\ IF Stored(PersonKey(UpdateTarget))
             THEN /\ xPc' = [xPc EXCEPT ![c] = "got"]
                  /\ xCurrent' = [xCurrent EXCEPT
                                     ![c] = getPersonById(UpdateTarget)]
             ELSE /\ xPc' = [xPc EXCEPT ![c] = "NotFound"]
                  /\ UNCHANGED xCurrent
    /\ UNCHANGED <<table, xClient, xArgs, xDeleted>>
    /\ RaceFrame

\* get-merge-put, second request: PersonEntity.put of the item read merged
\* with the updates; the put carries no condition and replaces or creates
\* the item
concurrentUpdatePerson_put ==
    /\ xClient = "electrodbPut"
    /\ \E c \in Callers :
          /\ xPc[c] = "got"
          /\ LET current == PersonOf(xCurrent[c][1])
                 updates == UpdatesOf(xArgs[c])
                 updatedPerson ==
                     [firstName |-> Coalesce(updates.firstName, current.firstName),
                      lastName |-> Coalesce(updates.lastName, current.lastName),
                      dateOfBirth |->
                          Coalesce(updates.dateOfBirth, current.dateOfBirth),
                      gender |-> Coalesce(updates.gender, current.gender),
                      createdAt |-> current.createdAt,
                      updatedAt |-> now]
             IN table' = PutItem(table, PersonKey(UpdateTarget),
                                 ElectroPersonItem(UpdateTarget, updatedPerson))
          /\ xPc' = [xPc EXCEPT ![c] = "ok"]
    /\ UNCHANGED <<xClient, xArgs, xCurrent, xDeleted>>
    /\ RaceFrame

\* PersonEntity.patch: one conditional update that sets the supplied
\* attributes and is refused when the item is not there
concurrentUpdatePerson_patch ==
    /\ xClient = "electrodbPatch"
    /\ \E c \in Callers :
          /\ xPc[c] = "start"
          /\ LET key == PersonKey(UpdateTarget)
                 updates == UpdatesOf(xArgs[c])
                 gsi == IF "firstName" \in xArgs[c]
                        THEN [gsi1sk |-> updates.lastName \o "#"
                                  \o updates.firstName \o "#" \o UpdateTarget]
                        ELSE [x \in {} |-> x]
             IN IF Stored(key)
                THEN /\ table' = PutItem(table, key,
                                     gsi @@ MarshallPerson(updates) @@ table[key])
                     /\ xPc' = [xPc EXCEPT ![c] = "ok"]
                ELSE /\ table' = table
                     /\ xPc' = [xPc EXCEPT ![c] = "ConditionalCheckFailed"]
    /\ UNCHANGED <<xClient, xArgs, xCurrent, xDeleted>>
    /\ RaceFrame

\* react.ts updatePerson: one UpdateCommand without condition that sets
\* updatedAt and the supplied fields, on the stored item or on a new one
concurrentUpdatePerson_ddb ==
    /\ xClient = "ddb"
    /\ \E c \in Callers :
          /\ xPc[c] = "start"
          /\ LET key == PersonKey(UpdateTarget)
                 updates == UpdatesOf(xArgs[c])
                 sets == [updatedAt |-> now]
                         @@ [f \in xArgs[c] |-> updates[f]]
                 item == sets @@ (IF Stored(key) THEN table[key]
                                  ELSE [x \in {} |-> x])
             IN /\ table' = PutItem(table, key, item)
                /\ xPc' = [xPc EXCEPT
                              ![c] = IF PersonSchemaValid(PersonOf(item))
                                     THEN "ok" ELSE "null"]
    /\ UNCHANGED <<xClient, xArgs, xCurrent, xDeleted>>
    /\ RaceFrame

\* deletePerson of another caller on a Person without children: the delete
\* of the Person item
concurrentDeletePerson ==
    /\ ~xDeleted
    /\ table' = DeleteItem(table, PersonKey(UpdateTarget))
    /\ xDeleted' = TRUE
    /\ UNCHANGED <<xClient, xPc, xArgs, xCurrent>>
    /\ RaceFrame

RaceNext ==
    \/ concurrentUpdatePerson_get
    \/ concurrentUpdatePerson_put
    \/ concurrentUpdatePerson_patch
    \/ concurrentUpdatePerson_ddb
    \/ concurrentDeletePerson

(***************************************************************************)
(* populateIndexFromEntities over a paginated dataset                      *)
(***************************************************************************)
\* a ?? ''
OrEmpty(a) == IF a = Undefined THEN "" ELSE a

toSearchDocument(person) ==
    [id |-> person.id, firstName |-> person.firstName,
     lastName |-> person.lastName,
     fullName |-> person.firstName \o " " \o person.lastName,
     city |-> OrEmpty(person.city), country |-> OrEmpty(person.country),
     email |-> OrEmpty(person.email), phone |-> OrEmpty(person.phone),
     companyName |-> OrEmpty(person.companyName),
     position |-> OrEmpty(person.position),
     bankName |-> OrEmpty(person.bankName)]

\* the documents one call inserts for data
DocumentsOf(data) ==
    LET summaries == MergeEntities(data)
    IN {toSearchDocument(summaries[i]) : i \in DOMAIN summaries}

PageNumbers == {1, 2}

\* the records of list that the split a puts on page k, in their order
Pick(list, a, k) ==
    LET idx == SelectSeq([i \in DOMAIN list |-> i], LAMBDA i : a[i] = k)
    IN [j \in DOMAIN idx |-> list[idx[j]]]

RECURSIVE Concat(_, _)
Concat(pages, field) ==
    IF pages = <<>> THEN <<>>
    ELSE Concat(Front(pages), field) \o Last(pages)[field]

\* the union of the pages: each list the concatenation of the pages' lists
UnionOfPages(pages) ==
    [field \in DOMAIN NoData |-> Concat(pages, field)]

\* a dataset holds each Person once
DistinctPersonLists ==
    {list \in PersonLists :
        \A i, j \in DOMAIN list : i # j => list[i].id # list[j].id}

PopulateIdle ==
    /\ oPages = <<>>
    /\ oNext = 0
    /\ oIndex = {}
    /\ oWhole = {}
    /\ oWholeDone = FALSE

PopulateInit ==
    /\ \E la, lc, le, lb \in 0..MaxPageChildren :
          /\ la + lc + le + lb <= MaxPageChildren
          /\ \E d \in [persons : DistinctPersonLists, addresses : AddressLists(la),
                       contacts : ContactLists(lc),
                       employments : EmploymentLists(le),
                       bankAccounts : BankAccountLists(lb)] :
             \E sp \in [DOMAIN d.persons -> PageNumbers],
                sa \in [DOMAIN d.addresses -> PageNumbers],
                sc \in [DOMAIN d.contacts -> PageNumbers],
                se \in [DOMAIN d.employments -> PageNumbers],
                sb \in [DOMAIN d.bankAccounts -> PageNumbers] :
                LET split == [persons |-> sp, addresses |-> sa, contacts |-> sc,
                              employments |-> se, bankAccounts |-> sb]
                IN oPages = [k \in 1..Cardinality(PageNumbers) |->
                                [field \in DOMAIN NoData |->
                                    Pick(d[field], split[field], k)]]
    /\ oNext = 1
    /\ oIndex = {}
    /\ oWhole = {}
    /\ oWholeDone = FALSE

\* one call per page on the same index: the documents of the summaries
\* merged from that page are inserted
populateIndexFromEntities_page ==
    /\ oNext \in DOMAIN oPages
    /\ oIndex' = oIndex \cup DocumentsOf(oPages[oNext])
    /\ oNext' = oNext + 1
    /\ UNCHANGED <<oPages, oWhole, oWholeDone>>
    /\ PopulateFrame

\* one call with the union of the pages on an index of its own
populateIndexFromEntities_union ==
    /\ ~oWholeDone
    /\ oNext >= 1
    /\ oWhole' = DocumentsOf(UnionOfPages(oPages))
    /\ oWholeDone' = TRUE
    /\ UNCHANGED <<oPages, oNext, oIndex>>
    /\ PopulateFrame

PopulateNext ==
    \/ populateIndexFromEntities_page
    \/ populateIndexFromEntities_union

(***************************************************************************)
(* Specifications                                                          *)
(***************************************************************************)
KeySpecInit ==
    KeyInit /\ TableIdle /\ CascadeIdle /\ UpdateIdle /\ ChildIdle /\ PagerIdle
    /\ BatchIdle
    /\ DeriveIdle
    /\ MergeIdle
    /\ SearchIdle
    /\ ListIdle
    /\ RelIdle
    /\ ConvertIdle
    /\ RaceIdle
    /\ PopulateIdle
KeySpec == KeySpecInit /\ [][KeyNext]_vars

CascadeSpecInit ==
    CascadeInit /\ KeyIdle /\ UpdateIdle /\ ChildIdle /\ PagerIdle
    /\ BatchIdle
    /\ DeriveIdle
    /\ MergeIdle
    /\ SearchIdle
    /\ ListIdle
    /\ RelIdle
    /\ ConvertIdle
    /\ RaceIdle
    /\ PopulateIdle
CascadeSpec == CascadeSpecInit /\ [][CascadeNext]_vars

UpdateSpecInit ==
    UpdateInit /\ KeyIdle /\ CascadeIdle /\ ChildIdle /\ PagerIdle
    /\ BatchIdle
    /\ DeriveIdle
    /\ MergeIdle
    /\ SearchIdle
    /\ ListIdle
    /\ RelIdle
    /\ ConvertIdle
    /\ RaceIdle
    /\ PopulateIdle
UpdateSpec == UpdateSpecInit /\ [][UpdateNext]_vars

ChildSpecInit ==
    ChildInit /\ KeyIdle /\ CascadeIdle /\ UpdateIdle /\ PagerIdle
    /\ BatchIdle
    /\ DeriveIdle
    /\ MergeIdle
    /\ SearchIdle
    /\ ListIdle
    /\ RelIdle
    /\ ConvertIdle
    /\ RaceIdle
    /\ PopulateIdle
ChildSpec == ChildSpecInit /\ [][ChildNext]_vars

BatchSpecInit ==
    BatchInit /\ KeyIdle /\ CascadeIdle /\ UpdateIdle /\ ChildIdle /\ PagerIdle
    /\ DeriveIdle
    /\ MergeIdle
    /\ SearchIdle
    /\ ListIdle
    /\ RelIdle
    /\ ConvertIdle
    /\ RaceIdle
    /\ PopulateIdle
BatchSpec == BatchSpecInit /\ [][BatchNext]_vars

DeriveSpecInit ==
    DeriveInit /\ KeyIdle /\ CascadeIdle /\ UpdateIdle /\ ChildIdle
    /\ PagerIdle /\ BatchIdle
    /\ MergeIdle
    /\ SearchIdle
    /\ ListIdle
    /\ RelIdle
    /\ ConvertIdle
    /\ RaceIdle
    /\ PopulateIdle

DeriveSpec == DeriveSpecInit /\ [][DeriveNext]_vars

MergeSpecInit ==
    MergeInit /\ KeyIdle /\ CascadeIdle /\ UpdateIdle /\ ChildIdle
    /\ PagerIdle /\ BatchIdle /\ DeriveIdle
    /\ SearchIdle
    /\ ListIdle
    /\ RelIdle
    /\ ConvertIdle
    /\ RaceIdle
    /\ PopulateIdle

MergeSpec == MergeSpecInit /\ [][MergeNext]_vars

SearchSpecInit ==
    SearchInit /\ KeyIdle /\ CascadeIdle /\ UpdateIdle /\ ChildIdle
    /\ PagerIdle /\ BatchIdle /\ DeriveIdle /\ MergeIdle
    /\ ListIdle
    /\ RelIdle
    /\ ConvertIdle
    /\ RaceIdle
    /\ PopulateIdle

SearchSpec == SearchSpecInit /\ [][SearchNext]_vars

\* the builds in flight end: the promises of buildIndex settle
SearchLiveSpec ==
    SearchSpecInit /\ [][SearchNext]_vars /\ WF_vars(buildIndex_resolve)

OwnerSpecInit ==
    TableIdle /\ KeyIdle /\ CascadeIdle /\ UpdateIdle /\ ChildIdle
    /\ PagerIdle /\ BatchIdle /\ DeriveIdle /\ MergeIdle /\ SearchIdle
    /\ ListIdle
    /\ RelIdle
    /\ ConvertIdle
    /\ RaceIdle
    /\ PopulateIdle

OwnerSpec == OwnerSpecInit /\ [][OwnerNext]_vars

ListSpecInit ==
    ListInit /\ KeyIdle /\ CascadeIdle /\ UpdateIdle /\ ChildIdle
    /\ PagerIdle /\ BatchIdle /\ DeriveIdle /\ MergeIdle /\ SearchIdle
    /\ RelIdle
    /\ ConvertIdle
    /\ RaceIdle
    /\ PopulateIdle

ListSpec == ListSpecInit /\ [][ListNext]_vars

RelSpecInit ==
    RelInit
    /\ KeyIdle
    /\ CascadeIdle
    /\ UpdateIdle
    /\ ChildIdle
    /\ PagerIdle
    /\ BatchIdle
    /\ DeriveIdle
    /\ MergeIdle
    /\ SearchIdle
    /\ ListIdle
    /\ ConvertIdle
    /\ RaceIdle
    /\ PopulateIdle
RelSpec == RelSpecInit /\ [][RelNext]_vars

ConvertSpecInit ==
    ConvertInit
    /\ KeyIdle
    /\ TableIdle
    /\ CascadeIdle
    /\ UpdateIdle
    /\ ChildIdle
    /\ PagerIdle
    /\ BatchIdle
    /\ DeriveIdle
    /\ MergeIdle
    /\ SearchIdle
    /\ ListIdle
    /\ RelIdle
    /\ RaceIdle
    /\ PopulateIdle
ConvertSpec ==
    ConvertSpecInit /\ [][ConvertNext]_vars /\ WF_vars(ConvertNext)

RaceSpecInit ==
    RaceInit
    /\ KeyIdle
    /\ CascadeIdle
    /\ UpdateIdle
    /\ ChildIdle
    /\ PagerIdle
    /\ BatchIdle
    /\ DeriveIdle
    /\ MergeIdle
    /\ SearchIdle
    /\ ListIdle
    /\ RelIdle
    /\ ConvertIdle
    /\ PopulateIdle
RaceSpec == RaceSpecInit /\ [][RaceNext]_vars

PopulateSpecInit ==
    PopulateInit
    /\ KeyIdle
    /\ TableIdle
    /\ CascadeIdle
    /\ UpdateIdle
    /\ ChildIdle
    /\ PagerIdle
    /\ BatchIdle
    /\ DeriveIdle
    /\ MergeIdle
    /\ SearchIdle
    /\ ListIdle
    /\ RelIdle
    /\ ConvertIdle
    /\ RaceIdle
PopulateSpec == PopulateSpecInit /\ [][PopulateNext]_vars

PagerSpecInit ==
    PagerInit /\ KeyIdle /\ TableIdle /\ CascadeIdle /\ UpdateIdle /\ ChildIdle
    /\ BatchIdle
    /\ DeriveIdle
    /\ MergeIdle
    /\ SearchIdle
    /\ ListIdle
    /\ RelIdle
    /\ ConvertIdle
    /\ RaceIdle
    /\ PopulateIdle
PagerSpec ==
    PagerSpecInit /\ [][PagerNext]_vars /\ WF_vars(loadAllDataForOrama)


(***************************************************************************)
(* C4: for ids and parent ids without the separator '#', decoding the keys  *)
(* produced by encoding returns the original ids.                          *)
(***************************************************************************)
C4_KeyRoundTrip ==
    (kPc = "decoded" /\ ~HasSeparator(kParent) /\ ~HasSeparator(kId)) =>
        /\ kOut.personId = kParent
        /\ (kType # "PERSON" => kOut.id = kId)

C4_Witness ==
    /\ kPc = "decoded"
    /\ kType = "EMPLOYMENT"
    /\ kParent = "PERSONa"
    /\ kId = "aPERSON"
    /\ kOut.personId = "PERSONa"
    /\ kOut.id = "aPERSON"

(***************************************************************************)
(* C5: parsing a sort key that does not start with the prefix expected for  *)
(* the entity type fails with a MalformedKey error and never returns an id. *)
(***************************************************************************)
C5_MalformedKeyRejected ==
    (kPc = "parsed" /\ ~StartsWith(kKey.sk, SkPrefix(kType))) =>
        kOut.threw = "MalformedKey"

(***************************************************************************)
(* C1: once deletePerson(personId) has returned without error and no other *)
(* writer ran meanwhile, listing each of the four child collections of the *)
(* person returns empty and getPerson returns not-found.                   *)
(***************************************************************************)
C1_CascadeComplete ==
    (dResult \in {"void", "true", "false"} /\ ~interfered) =>
        /\ \A t \in ChildTypes : ListByParent(t, DeleteTarget) = <<>>
        /\ getPersonById(DeleteTarget) = <<>>

(***************************************************************************)
(* C2: during deletePerson the Person item is removed only after the delete *)
(* of every enumerated child has completed: no step of a cascade removes   *)
(* the Person item while a child that the cascade enumerated is stored.    *)
(***************************************************************************)
C2_PersonRemovedLast ==
    [][(Running /\ Stored(PersonKey(DeleteTarget))
        /\ PersonKey(DeleteTarget) \notin DOMAIN table')
       => \A k \in dEnumerated : k \notin DOMAIN table']_vars

(***************************************************************************)
(* C3: over a sequence of updatePerson calls on one existing Person, the    *)
(* updatedAt of each result is strictly greater than the updatedAt of the   *)
(* result of the call before it.                                           *)
(***************************************************************************)
C3_UpdatedAtIncreases ==
    (prevUpdatedAt # NoTime /\ lastUpdatedAt # NoTime) =>
        lastUpdatedAt > prevUpdatedAt

C10_ValidationRejects ==
    lastOp.lacks =>
        /\ lastOp.outcome = "ValidationError"
        /\ lastOp.after = lastOp.before

(***************************************************************************)
(* C9: after updateAddress, updateBankAccount, updateContact or            *)
(* updateEmployment the stored child equals the supplied one, and no       *)
(* optional attribute that the supplied child omits is left in the item.   *)
(***************************************************************************)
C9_ChildFullReplace ==
    childOp.op # "none" =>
        LET t == childOp.type
            supplied == childOp.supplied
            key == ChildKey(t, supplied.personId, supplied.id)
        IN /\ Stored(key)
           /\ ReadChild(t, supplied.personId, key) = supplied
           /\ \A a \in OptionalAttrs(t) :
                 supplied[a] = Undefined => a \notin DOMAIN table[key]

(***************************************************************************)
(* C9 amended: after an update of a child the stored child equals the      *)
(* supplied one, except that updateEmployment of the ElectroDB client      *)
(* stores a null endDate as an absent endDate; no optional attribute that  *)
(* the supplied child omits is left in the item.                           *)
(***************************************************************************)
C9_ChildFullReplaceAmended ==
    childOp.op # "none" =>
        LET t == childOp.type
            supplied == childOp.supplied
            key == ChildKey(t, supplied.personId, supplied.id)
            nullEndDate == /\ cClient = "electrodb"
                           /\ childOp.op = "updateEmployment"
                           /\ supplied.endDate = Null
        IN /\ Stored(key)
           /\ \A a \in DOMAIN supplied :
                 ReadChild(t, supplied.personId, key)[a] =
                    IF nullEndDate /\ a = "endDate" THEN Undefined
                    ELSE supplied[a]
           /\ \A a \in OptionalAttrs(t) :
                 supplied[a] = Undefined => a \notin DOMAIN table[key]

C9_Witness ==
    /\ childOp.op = "updateBankAccount"
    /\ cClient = "ddb"
    /\ "iban" \in DOMAIN childOp.previous
    /\ childOp.previous.isPrimary = TRUE
    /\ childOp.supplied.iban = Undefined
    /\ childOp.supplied.bic = "COBADEFF"
    /\ childOp.supplied.isPrimary = FALSE
    /\ DOMAIN table[ChildKey("BANK", UpdateTarget, ChildId(1))] =
          {"entityType", "bankName", "accountType", "accountNumberLast4",
           "bic", "isPrimary"}

C11_PartialCascadeReported ==
    (/\ dPc = "done"
     /\ dVariant = "electrodb" => dQueried = ChildTypes
     /\ \E k \in dEnumerated : Stored(k)) =>
        dResult = "PartialCascadeFailure"

(***************************************************************************)
(* C12: a batch write that the store leaves partly unprocessed is sent 3   *)
(* times, and when requests are still unprocessed after the last attempt   *)
(* the operation ends with a StoreUnavailable error instead of returning   *)
(* normally.                                                               *)
(***************************************************************************)
C12_RetryThenStoreUnavailable ==
    (bPc = "done" /\ bLost # {}) =>
        /\ bSends = MAX_RETRY_ATTEMPTS
        /\ bResult = "StoreUnavailable"

(***************************************************************************)
(* C13: while nothing of the person is stored, no step of deletePerson,    *)
(* neither the delete of an absent child nor that of the absent Person,    *)
(* changes a stored item, and the call does not end with an error of its   *)
(* own: it returns as a call that found the items does.                    *)
(***************************************************************************)
TargetAbsent == \A k \in DOMAIN table : k.pk # person_pk(DeleteTarget)

RECURSIVE BaseOf(_)
BaseOf(node) ==
    IF node.type \in WrapperTypes THEN BaseOf(node.innerType) ELSE node

RECURSIVE HasOptionalOrNullable(_)
HasOptionalOrNullable(node) ==
    /\ node.type \in WrapperTypes
    /\ \/ node.type \in {"optional", "nullable"}
       \/ HasOptionalOrNullable(node.innerType)

RECURSIVE OuterDefault(_)
OuterDefault(node) ==
    IF node.type = "default" THEN <<node.defaultValue>>
    ELSE IF node.type \in WrapperTypes THEN OuterDefault(node.innerType)
    ELSE <<>>

\* the value of a default at the i-th derivation
ResolvedAt(defaultValue, i) ==
    IF defaultValue.kind = "function" THEN defaultValue.returns[i]
    ELSE defaultValue

C14_WrapperDerivation ==
    \A i \in 1..Len(zAttrs) : \A key \in DOMAIN zShape :
        LET node == zShape[key]
            attribute == zAttrs[i][key]
            default == OuterDefault(node)
        IN /\ attribute.type = convertZodType(BaseOf(node)).type
           /\ attribute.required = ~HasOptionalOrNullable(node)
           /\ IF default = <<>> THEN DefaultOf(attribute) = <<>>
              ELSE DefaultOf(attribute) = <<ResolvedAt(default[1], i)>>
           /\ node = ZOptional(ZString) =>
                attribute = [type |-> StorageType("string"), required |-> FALSE]
           /\ node = ZDefault(ZBoolean, Val("boolean", "false")) =>
                attribute = [type |-> StorageType("boolean"), required |-> TRUE,
                             default |-> Val("boolean", "false")]

C14_Witness ==
    /\ Len(zAttrs) = Len(FreshValues)
    /\ zShape = [field |-> ZDefault(ZNullable(ZNumber), Thunk(FreshValues))]
    /\ zAttrs[1].field.required = FALSE
    /\ zAttrs[1].field.default = FreshValues[1]

(***************************************************************************)
(* C15: an enum node derives the list of allowed values that holds exactly *)
(* the values of the enum, and a literal node derives the list that holds  *)
(* exactly its literal value.                                              *)
(***************************************************************************)
C15_AllowedValueLists ==
    \A i \in 1..Len(zAttrs) : \A key \in DOMAIN zShape :
        LET base == BaseOf(zShape[key])
            attribute == zAttrs[i][key]
        IN /\ base.type = "enum" =>
                attribute.type = AllowedValues(base.options)
           /\ base.type = "literal" =>
                attribute.type = AllowedValues(<<base.value.repr>>)

(***************************************************************************)
(* C16: two derivations from the same schema yield the same attribute map: *)
(* the same fields with the same storage type, required flag and default.  *)
(***************************************************************************)
C16_DerivationIdempotent ==
    \A i, j \in 1..Len(zAttrs) : zAttrs[i] = zAttrs[j]

(***************************************************************************)
(* C17: for each of the five entity schemas the derived attribute map has  *)
(* the fields of the hand-written attributes of the entity, each with the  *)
(* same storage type, required flag and default.                           *)
(***************************************************************************)
C17_DerivedAgreesWithHandWritten ==
    \A i \in 1..Len(zAttrs) :
        zShape \in EntitySchemas =>
            LET derived == zAttrs[i]
                written == EntityAttributes(zShape)
            IN /\ DOMAIN derived = DOMAIN written
               /\ \A key \in DOMAIN derived :
                    /\ derived[key].type = written[key].type
                    /\ IsRequired(derived[key]) = IsRequired(written[key])
                    /\ DefaultOf(derived[key]) = DefaultOf(written[key])

(***************************************************************************)
(* C18: mergeEntitiesToSummaries returns one summary for each distinct id  *)
(* of the Person records of the input and no other summary, and the        *)
(* children whose personId is the id of no Person record of the input      *)
(* leave the result as it is without them.                                 *)
(***************************************************************************)
InputIds == {mData.persons[i].id : i \in DOMAIN mData.persons}

Owned(list) == SelectSeq(list, LAMBDA child : child.personId \in InputIds)

WithoutOrphans ==
    [persons |-> mData.persons, addresses |-> Owned(mData.addresses),
     contacts |-> Owned(mData.contacts),
     employments |-> Owned(mData.employments),
     bankAccounts |-> Owned(mData.bankAccounts)]

C18_OneSummaryPerPerson ==
    mPc = "done" =>
        /\ {mSummaries[k].id : k \in DOMAIN mSummaries} = InputIds
        /\ Len(mSummaries) = Cardinality(InputIds)
        /\ mSummaries = MergeEntities(WithoutOrphans)

C18_Witness ==
    /\ mPc = "done"
    /\ Len(mData.persons) = 2
    /\ Cardinality(InputIds) = 1
    /\ \E i \in DOMAIN mData.addresses :
          /\ mData.addresses[i].personId = Orphan
          /\ mData.addresses[i].isPrimary
    /\ Len(mSummaries) = 1

(***************************************************************************)
(* C19: in the summary of a Person each merged field holds the value of    *)
(* the last child of that Person, in input order, whose isPrimary flag     *)
(* (isCurrent for an employment) is true and, for email and phone, whose   *)
(* contact type feeds the field; without such a child the field is unset.  *)
(* A child with a false flag therefore never changes a field.              *)
(***************************************************************************)
\* the value get(list[i]) of the last record of the person that qualifies
LastOf(list, personId, Qualifies(_), Get(_)) ==
    LET at == {i \in DOMAIN list :
                  list[i].personId = personId /\ Qualifies(list[i])}
    IN IF at = {} THEN Undefined
       ELSE Get(list[CHOOSE i \in at : \A j \in at : j <= i])

C19_FieldsFromLastPrimary ==
    mPc = "done" =>
        \A k \in DOMAIN mSummaries :
            LET summary == mSummaries[k]
                Primary(child) == child.isPrimary
                Current(child) == child.isCurrent
                Email(child) == child.isPrimary /\ child.type = "email"
                Phone(child) ==
                    child.isPrimary /\ child.type \in {"phone", "mobile"}
            IN /\ summary.city = LastOf(mData.addresses, summary.id, Primary,
                                        LAMBDA child : child.city)
               /\ summary.country = LastOf(mData.addresses, summary.id, Primary,
                                           LAMBDA child : child.country)
               /\ summary.email = LastOf(mData.contacts, summary.id, Email,
                                         LAMBDA child : child.value)
               /\ summary.phone = LastOf(mData.contacts, summary.id, Phone,
                                         LAMBDA child : child.value)
               /\ summary.companyName =
                    LastOf(mData.employments, summary.id, Current,
                           LAMBDA child : child.companyName)
               /\ summary.position =
                    LastOf(mData.employments, summary.id, Current,
                           LAMBDA child : child.position)
               /\ summary.bankName = LastOf(mData.bankAccounts, summary.id, Primary,
                                            LAMBDA child : child.bankName)

C19_Witness ==
    /\ mPc = "done"
    /\ Len(mData.employments) = 2
    /\ \A i \in DOMAIN mData.employments :
          mData.employments[i].personId = "p1"
    /\ mData.employments[1].isCurrent
    /\ ~mData.employments[2].isCurrent
    /\ \E k \in DOMAIN mSummaries :
          /\ mSummaries[k].id = "p1"
          /\ mSummaries[k].companyName = mData.employments[1].companyName

(***************************************************************************)
(* C20: every step of usePersonSearch that starts an index build finds the *)
(* data hash of the current persons different from the hash recorded by    *)
(* the build that ended last, and a refresh that delivers the ids of the   *)
(* index in state, in any order, starts no build.                          *)
(***************************************************************************)
IdsOf(delivered) == {delivered[i] : i \in DOMAIN delivered}

C20_RebuildOnlyOnNewFingerprint ==
    [][/\ sStarted' # sStarted => DataHash(sPersons') # lastDataHashRef'
       /\ (/\ searchIndex.built
           /\ searchIndex' = searchIndex
           /\ IdsOf(sPersons') = IdsOf(searchIndex.docs)) =>
              sStarted' = sStarted]_vars

C20_Witness ==
    /\ searchIndex.built
    /\ sBuilds = <<>>
    /\ sStarted = 1
    /\ Len(sPersons) = Len(IdOrder)
    /\ sPersons # searchIndex.docs
    /\ IdsOf(sPersons) = IdsOf(searchIndex.docs)

(***************************************************************************)
(* C21: under the allData index (GSI2) the items of one Person, its        *)
(* profile and its children, are contiguous: no item of another Person     *)
(* sorts between two items of the same Person.                             *)
(***************************************************************************)
C21_PersonItemsContiguous ==
    \A x, y, z \in DOMAIN table :
        (OwnerOfKey(x) = OwnerOfKey(y) /\ OwnerOfKey(z) # OwnerOfKey(x)) =>
            ~(/\ SortsBefore(Gsi2SkOfKey(x), Gsi2SkOfKey(z))
              /\ SortsBefore(Gsi2SkOfKey(z), Gsi2SkOfKey(y)))

(***************************************************************************)
(* C22: no two stored children of one type carry the same id under         *)
(* different persons.                                                      *)
(***************************************************************************)
C22_ChildIdUniqueInType ==
    \A x, y \in DOMAIN table :
        (/\ TypeOfKey(x) # "PERSON"
         /\ TypeOfKey(x) = TypeOfKey(y)
         /\ IdOfKey(x) = IdOfKey(y)) => OwnerOfKey(x) = OwnerOfKey(y)

(***************************************************************************)
(* C23: getAllPersons returns every stored Person once and no Person       *)
(* twice, into however many pages the store splits the listing.            *)
(***************************************************************************)
C23_AllPersonsOnce ==
    gPc = "done" =>
        /\ SeqToSet(gPersons) =
              {extractPersonId(key.pk) : key \in DOMAIN table}
        /\ Len(gPersons) = Cardinality(DOMAIN table)

(***************************************************************************)
(* C24: getPersonWithRelations returns the Person with every stored child  *)
(* of that Person, each child in the list of its own type and in no other, *)
(* and not-found when no Person item is stored under the id.               *)
(***************************************************************************)
StoredChildIds(t, personId) ==
    {ExtractChildId(t, k.sk) :
        k \in {j \in DOMAIN table :
                 j.pk = KeyPk(t, personId) /\ StartsWith(j.sk, SkPrefix(t))}}

C24_PersonWithAllChildren ==
    rPc = "done" =>
        /\ rResult.found = Stored(PersonKey(rPersonId))
        /\ rResult.found =>
              \A t \in ChildTypes :
                 /\ SeqToSet(rResult.lists[t]) = StoredChildIds(t, rPersonId)
                 /\ Len(rResult.lists[t]) =
                       Cardinality(StoredChildIds(t, rPersonId))

(***************************************************************************)
(* C25: convertZodType terminates on every finite schema tree, pipe and    *)
(* transform nodes included: the evaluation reaches a call that returns an *)
(* attribute.                                                              *)
(***************************************************************************)
C25_ConvertTerminates == <>(vPc = "returned")

(***************************************************************************)
(* C26: updatePerson never creates a Person item. With updatePerson and    *)
(* deletePerson the only writers, a Person that is absent when a write is  *)
(* applied is absent after it.                                             *)
(***************************************************************************)
C26_UpdateNeverCreates ==
    [][~Stored(PersonKey(UpdateTarget)) => ~Stored(PersonKey(UpdateTarget))']_vars

(***************************************************************************)
(* C27: when two concurrent updatePerson calls on one Person set disjoint  *)
(* fields and both return successfully, the stored Person carries the      *)
(* values of both calls.                                                   *)
(***************************************************************************)
C27_DisjointUpdatesBothKept ==
    (/\ \A c \in Callers : xPc[c] = "ok"
     /\ xArgs["u1"] \cap xArgs["u2"] = {}
     /\ ~xDeleted) =>
        /\ Stored(PersonKey(UpdateTarget))
        /\ \A c \in Callers : \A f \in xArgs[c] :
              Attr(table[PersonKey(UpdateTarget)], f) = NewValue(f)

(***************************************************************************)
(* C28: when deletePerson returns without error, no child item of the      *)
(* Person is stored, also when a child of the Person was created while the *)
(* cascade was running.                                                    *)
(***************************************************************************)
C28_NoChildAfterCascade ==
    [][(dPc # "done" /\ dPc' = "done" /\ dResult' \in {"void", "true", "false"})
       => \A k \in DOMAIN table' :
             k.pk = person_pk(DeleteTarget) => k.sk = person_sk]_vars

(***************************************************************************)
(* C29: once the set of Persons delivered to usePersonSearch stops         *)
(* changing, the search index eventually holds a document for each Person  *)
(* of the set and for no other, and keeps doing so; the set may be empty,  *)
(* and builds may have overlapped before.                                  *)
(***************************************************************************)
C29_IndexConverges ==
    \A S \in SUBSET {IdOrder[i] : i \in DOMAIN IdOrder} :
        <>[](IdsOf(sPersons) = S /\ sStarted < MaxBuilds)
            => <>[](IdsOf(searchIndex.docs) = S)

(***************************************************************************)
(* C30: populating an index with one call of populateIndexFromEntities per *)
(* page leaves the same set of documents as populating it with one call on *)
(* the union of the pages, however the Persons and their children are      *)
(* spread over the pages.                                                  *)
(***************************************************************************)
C30_PerPageEqualsUnion ==
    (oNext > Len(oPages) /\ oWholeDone) => oIndex = oWhole

====
